---- MODULE Spec2Model ----
(***************************************************************************)
(* A model of the contest scorer's rule pipeline: scoreContest runs        *)
(* validateContacts, scoreContacts, applyBonusRules and the result         *)
(* assembly (split, sort, applyTiebreakers, formatCounts) over a list of   *)
(* submissions and a rules configuration.                                  *)
(*                                                                         *)
(* Strings are strings.  Instants are whole minutes, frequencies whole     *)
(* kHz; a value that JavaScript would hold as NaN (an unparseable date or  *)
(* number) is the integer NaN, and an unset numeric property is the        *)
(* integer unset.  A JavaScript Map is a sequence of entries in insertion  *)
(* order.                                                                  *)
(***************************************************************************)
EXTENDS Integers, Sequences, FiniteSets, TLC

VARIABLES
  submissions,                    \* Participant[]: <<[callsign, contacts]>>
  rules,                          \* ContestRules
  pc,                             \* position inside scoreContest
  initialValidContacts,           \* validateContacts' local of that name
  contactsAfterDefaultValidation, \* validateContacts' local of that name
  contactsAfterUniqueValidation,  \* validateContacts' local of that name
  validContacts,                  \* Map<Callsign, ValidContact[] | null>
  scoringDetails,                 \* Record<Callsign, ParticipantScoringDetail>
  missingParticipants,            \* Set<Callsign>
  blacklistedCallsignsFound,      \* Set<Callsign>
  appearanceCounts,               \* Map<Callsign, number>
  blacklistedAppearanceCounts,    \* Map<Callsign, number>
  scoredContacts,                 \* Map<Callsign, ValidContact[]>
  results,                        \* applyBonusRules' ScoringResult[]
  output,                         \* the ContestResult's ranked and formatted lists
  previous                        \* the ContestResults of the calls made before

vars == <<submissions, rules, pc, initialValidContacts,
          contactsAfterDefaultValidation, contactsAfterUniqueValidation,
          validContacts, scoringDetails, missingParticipants,
          blacklistedCallsignsFound, appearanceCounts,
          blacklistedAppearanceCounts, scoredContacts, results, output,
          previous>>

-----------------------------------------------------------------------------
(* Values *)

\* What Number(...) and new Date(...).getTime() give for text that does not parse.
NaN == -1

\* A numeric property that was never assigned (givenScore, givenBonus).
unset == -2

Abs(a) == IF a < 0 THEN 0 - a ELSE a

RECURSIVE SumSeq(_)
SumSeq(s) == IF s = <<>> THEN 0 ELSE Head(s) + SumSeq(Tail(s))

Range(s) == {s[i] : i \in 1..Len(s)}

\* The element of a set of one: Only({e(x) : x \in {v}}) is e of v, with v
\* worked out once.
Only(S) == CHOOSE x \in S : TRUE

\* Map<K, V> as a sequence of [key, val, isNull] in insertion order.
MapHas(m, k) == \E i \in 1..Len(m) : m[i].key = k
MapIdx(m, k) == CHOOSE i \in 1..Len(m) : m[i].key = k
MapGet(m, k) == m[MapIdx(m, k)].val
MapIsNull(m, k) == m[MapIdx(m, k)].isNull
MapSet(m, k, v) ==
  IF MapHas(m, k) THEN [m EXCEPT ![MapIdx(m, k)] = [key |-> k, val |-> v, isNull |-> FALSE]]
  ELSE Append(m, [key |-> k, val |-> v, isNull |-> FALSE])
MapKeys(m) == {m[i].key : i \in 1..Len(m)}

\* counts.get(k) || 0, for a count map held as a function
GetOr0(counts, k) == IF k \in DOMAIN counts THEN counts[k] ELSE 0
\* counts.set(k, v)
SetCount(counts, k, v) == [x \in DOMAIN counts \cup {k} |-> IF x = k THEN v ELSE counts[x]]

-----------------------------------------------------------------------------
(* Text that parses.  The tables stand for the digits of the ADIF fields:  *)
(* a date YYYYMMDD gives its day, a time HHMMSS its minute of the day, a   *)
(* frequency in MHz its kHz.                                               *)

DateTable == [x \in {"20250401", "20250402"} |-> IF x = "20250401" THEN 0 ELSE 1]

TimeTable ==
  [x \in {"120000", "120100", "120200", "120300", "120400"} |->
     CASE x = "120000" -> 720 [] x = "120100" -> 721 [] x = "120200" -> 722
       [] x = "120300" -> 723 [] OTHER -> 724]

FreqTable ==
  [x \in {"7.000", "7.001", "7.002", "7.003", "14.000"} |->
     CASE x = "7.000" -> 7000 [] x = "7.001" -> 7001 [] x = "7.002" -> 7002
       [] x = "7.003" -> 7003 [] OTHER -> 14000]

MinutesPerDay == 1440

\* Number(s): '' is 0, a numeral its value, anything else NaN
Number(s) ==
  IF s = "" THEN 0
  ELSE IF s \in DOMAIN FreqTable THEN FreqTable[s] ELSE NaN

isNaN(n) == n = NaN

\* a >= b, a <= b on numbers either of which may be NaN (then false)
Ge(a, b) == ~isNaN(a) /\ ~isNaN(b) /\ a >= b
Le(a, b) == ~isNaN(a) /\ ~isNaN(b) /\ a <= b

\* contact.f || '' : a property the object does not have reads as ''
Field(contact, f) == IF f \in DOMAIN contact THEN contact[f] ELSE ""

getDateTimeFromContact(contact) ==
  [date |-> Field(contact, "qso_date"), time |-> Field(contact, "time_on")]

\* new Date(`${year}-${month}-${day}T${hour}:${minute}:${second}Z`)
parseDateTime(date, time) ==
  IF date \in DOMAIN DateTable /\ time \in DOMAIN TimeTable
  THEN DateTable[date] * MinutesPerDay + TimeTable[time]
  ELSE NaN

getTimeDiffInMinutes(date1, date2) ==
  IF isNaN(date1) \/ isNaN(date2) THEN NaN ELSE Abs(date1 - date2)

\* freq1 is a number, freq2 the other contact's text; the tolerance is in kHz
\* (the code's toleranceMhz * 1000)
areFrequenciesWithinTolerance(freqNum1, freq2, toleranceKhz) ==
  LET freqNum2 == Number(freq2) IN
    IF isNaN(freqNum1) \/ isNaN(freqNum2) THEN FALSE
    ELSE Abs(freqNum1 - freqNum2) <= toleranceKhz

\* A rule configuration is [name, hasParam, param]: hasParam is false for a rule
\* given as a bare name.  extractRule finds the first rule of a name.
HasRule(ruleList, name) == \E i \in 1..Len(ruleList) : ruleList[i].name = name
extractRule(ruleList, name) ==
  ruleList[CHOOSE i \in 1..Len(ruleList) :
             /\ ruleList[i].name = name
             /\ \A j \in 1..(i - 1) : ruleList[j].name # name]

-----------------------------------------------------------------------------
(* getRulesContext *)

\* timeRanges: the uniqueContactsByTimeRange parameter, a sequence of
\* [name, start, end] in the parameter object's key order; else empty
timeRangesOf(r) ==
  IF HasRule(r.validation, "uniqueContactsByTimeRange")
     /\ extractRule(r.validation, "uniqueContactsByTimeRange").hasParam
  THEN extractRule(r.validation, "uniqueContactsByTimeRange").param
  ELSE <<>>

\* bandRanges: the bands parameter, a sequence of [name, start, end]; else empty
bandRangesOf(r) ==
  IF HasRule(r.validation, "bands") /\ extractRule(r.validation, "bands").hasParam
  THEN extractRule(r.validation, "bands").param
  ELSE <<>>

getRulesContext(r) ==
  [contestRules |-> r,
   contestStart |-> r.start,
   contestEnd |-> r.end,
   timeRanges |-> timeRangesOf(r),
   bandRanges |-> bandRangesOf(r)]

-----------------------------------------------------------------------------
(* lib/rules/validators: the rules of the initial pass *)

\* A faulty rule: a date and time that are given pass, whether they parse or not.
timeRangeValidatorUnparsed(contact, context) ==
  LET dt == getDateTimeFromContact(contact) IN dt.date # "" /\ dt.time # ""

timeRangeValidator(contact, context) ==
  LET dt == getDateTimeFromContact(contact) IN
    IF dt.date = "" \/ dt.time = "" THEN FALSE
    ELSE LET contactDateTime == parseDateTime(dt.date, dt.time) IN
           Ge(contactDateTime, context.contestStart) /\ Le(contactDateTime, context.contestEnd)

bandsValidator(contact, context) ==
  LET contactFreq == Field(contact, "freq") IN
    IF contactFreq = "" THEN FALSE
    ELSE LET contactFreqNum == Number(contactFreq) IN
      IF isNaN(contactFreqNum) THEN FALSE
      ELSE \E i \in 1..Len(context.bandRanges) :
             /\ contactFreqNum >= context.bandRanges[i].start
             /\ contactFreqNum <= context.bandRanges[i].end

\* validModes = [] when the rule has no parameter
modeValidator(contact, rule) ==
  IF Field(contact, "mode") = "" THEN FALSE
  ELSE rule.hasParam /\ Field(contact, "mode") \in rule.param

contactedInContestValidator(contact, context) ==
  \/ context.contestRules.allowMissingParticipants
  \/ IF Field(contact, "call") # ""
     THEN Field(contact, "call") \in context.participantCallsigns
     ELSE FALSE

\* The pattern is held as the set of exchange texts it matches; the default
\* pattern '' matches every text.
exchangeValidator(contact, rule) ==
  IF Field(contact, "srx_string") # "" /\ Field(contact, "stx_string") # ""
  THEN \A exchange \in {Field(contact, "srx_string"), Field(contact, "stx_string")} :
         (~rule.hasParam) \/ exchange \in rule.param
  ELSE FALSE

\* validators[ruleName](callsign, contact, context, params)
validators(rule, callsign, contact, context) ==
  CASE rule.name = "timeRange" -> timeRangeValidator(contact, context)
    [] rule.name = "bands" -> bandsValidator(contact, context)
    [] rule.name = "mode" -> modeValidator(contact, rule)
    [] rule.name = "contactedInContest" -> contactedInContestValidator(contact, context)
    [] rule.name = "exchange" -> exchangeValidator(contact, rule)

-----------------------------------------------------------------------------
(* lib/validator: applyInitialValidation *)

RULES_TO_SKIP_DURING_INITIAL_VALIDATION ==
  {"uniqueContactsByTimeRange", "minimumContacts", "default"}

initialValidationRules(r) ==
  SelectSeq(r.validation, LAMBDA rule : rule.name \notin RULES_TO_SKIP_DURING_INITIAL_VALIDATION)

participantCallsignsOf(subs, blacklistedCallsigns) ==
  {subs[i].callsign : i \in 1..Len(subs)} \ blacklistedCallsigns

\* validationRules.every(...): 0 when every rule passes, else the index of the
\* first rule that fails (every stops there)
RECURSIVE FirstFailing(_, _, _, _, _)
FirstFailing(validationRules, i, callsign, contact, context) ==
  IF i > Len(validationRules) THEN 0
  ELSE IF ~validators(validationRules[i], callsign, contact, context) THEN i
  ELSE FirstFailing(validationRules, i + 1, callsign, contact, context)

\* the band of a contact: the first named band range that holds its frequency,
\* else the band it logged
resolveBand(contact, bandRanges) ==
  LET freq == Field(contact, "freq")
      freqNum == Number(freq)
      hits == {i \in 1..Len(bandRanges) :
                 /\ freqNum >= bandRanges[i].start
                 /\ freqNum <= bandRanges[i].end
                 /\ bandRanges[i].name # ""}
  IN IF freq # "" /\ ~isNaN(freqNum) /\ Len(bandRanges) > 0 /\ hits # {}
     THEN bandRanges[CHOOSE i \in hits : \A j \in hits : i <= j].name
     ELSE Field(contact, "band")

makeValidContact(callsign, contact, band, index) ==
  [callsign |-> callsign,
   contactedCallsign |-> Field(contact, "call"),
   date |-> getDateTimeFromContact(contact).date,
   time |-> getDateTimeFromContact(contact).time,
   freq |-> Field(contact, "freq"),
   band |-> band,
   mode |-> Field(contact, "mode"),
   exchanges |-> [rstSent |-> Field(contact, "rst_sent"),
                  rstRcvd |-> Field(contact, "rst_rcvd"),
                  stxString |-> Field(contact, "stx_string"),
                  srxString |-> Field(contact, "srx_string")],
   score |-> 0,
   scoringDetailsIndex |-> index]

\* A faulty tally: every contact with a blacklisted callsign counts, also a
\* repeat within one log.
tallyBlacklistedPerContact(counts, localBlacklistedAppearances, contactedCallsign) ==
  SetCount(counts, contactedCallsign, GetOr0(counts, contactedCallsign) + 1)

\* if (!localBlacklistedAppearances.has(contactedCallsign)) the count goes up
tallyBlacklisted(counts, localBlacklistedAppearances, contactedCallsign) ==
  IF contactedCallsign \in localBlacklistedAppearances THEN counts
  ELSE SetCount(counts, contactedCallsign, GetOr0(counts, contactedCallsign) + 1)

\* A contact the loop does not skip: run through the rules, its detail entry
\* appended, and pushed onto the valid contacts when every rule passes.
initialContactValidated(acc, callsign, contact, validationRules, context) ==
  LET failing == FirstFailing(validationRules, 1, callsign, contact, context)
      currentContactDetails ==
        IF failing = 0
        THEN [raw |-> contact, invalidValidationRule |-> "null",
              scoreRule |-> "undefined", givenScore |-> unset]
        ELSE [raw |-> contact, invalidValidationRule |-> validationRules[failing].name,
              scoreRule |-> "null", givenScore |-> 0]
      band == resolveBand(contact, context.bandRanges)
  IN IF failing # 0
     THEN [acc EXCEPT !.details = Append(@, currentContactDetails),
                      !.log = Append(@, contact)]
     ELSE [acc EXCEPT
             !.details = Append(@, currentContactDetails),
             !.valid = Append(@, makeValidContact(callsign, contact, band,
                                                  Len(acc.details) + 1)),
             !.log = Append(@, [contact EXCEPT !.band = band])]

\* A faulty loop body: the contacted callsign is not looked up in the blacklist.
initialContactStepUnchecked(acc, callsign, contact, validationRules, context) ==
  initialContactValidated(acc, callsign, contact, validationRules, context)

\* One contact of the loop over a submission's contacts.  acc holds the
\* participant's valid contacts and details so far, the blacklist tallies and
\* the log as mutated so far (contact.band = band).
initialContactStep(acc, callsign, contact, validationRules, context) ==
  LET contactedCallsign == Field(contact, "call")
  IN IF contactedCallsign \in context.blacklistedCallsigns
     THEN [acc EXCEPT
             !.found = @ \cup {contactedCallsign},
             !.counts = tallyBlacklisted(@, acc.local, contactedCallsign),
             !.local = @ \cup {contactedCallsign},
             !.log = Append(@, contact)]
     ELSE initialContactValidated(acc, callsign, contact, validationRules, context)

RECURSIVE initialContacts(_, _, _, _, _, _)
initialContacts(acc, callsign, contacts, i, validationRules, context) ==
  IF i > Len(contacts) THEN acc
  ELSE Only({initialContacts(next, callsign, contacts, i + 1, validationRules, context) :
               next \in {initialContactStep(acc, callsign, contacts[i], validationRules,
                                            context)}})

\* scoringDetails[callsign] = {...scoringDetails[callsign], contacts: ...}
detailsWithContacts(details, callsign, contacts) ==
  IF callsign \in DOMAIN details
  THEN [details EXCEPT ![callsign].contacts = contacts]
  ELSE [x \in DOMAIN details \cup {callsign} |->
          IF x = callsign
          THEN [contacts |-> contacts, bonusRuleApplied |-> "undefined",
                givenBonus |-> unset, hasMinimumAppearances |-> "undefined"]
          ELSE details[x]]

\* A submission the loop does not skip: its contacts validated, its entry set.
initialSubmissionEntry(st, i, validationRules, context) ==
  LET callsign == st.submissions[i].callsign
      contacts == st.submissions[i].contacts
      before == IF callsign \in DOMAIN st.scoringDetails
                THEN st.scoringDetails[callsign].contacts ELSE <<>>
  IN Only({[submissions |-> [st.submissions EXCEPT ![i].contacts = acc.log],
            validContacts |-> MapSet(st.validContacts, callsign, acc.valid),
            scoringDetails |->
              detailsWithContacts(st.scoringDetails, callsign, acc.details),
            blacklistedCallsignsFound |-> acc.found,
            blacklistedAppearanceCounts |-> acc.counts] :
             acc \in {initialContacts(
                        [valid |-> <<>>, details |-> before,
                         found |-> st.blacklistedCallsignsFound,
                         counts |-> st.blacklistedAppearanceCounts,
                         local |-> {}, log |-> <<>>],
                        callsign, contacts, 1, validationRules, context)}})

\* A faulty loop body: the submitter's callsign is not looked up in the blacklist.
initialSubmissionStepUnchecked(st, i, validationRules, context) ==
  initialSubmissionEntry(st, i, validationRules, context)

\* One submission of the loop over submissions.
initialSubmissionStep(st, i, validationRules, context) ==
  LET callsign == st.submissions[i].callsign
  IN IF callsign \in context.blacklistedCallsigns
     THEN [st EXCEPT
             !.blacklistedCallsignsFound = @ \cup {callsign},
             !.blacklistedAppearanceCounts = SetCount(@, callsign, GetOr0(@, callsign) + 1)]
     ELSE initialSubmissionEntry(st, i, validationRules, context)

RECURSIVE initialSubmissions(_, _, _, _)
initialSubmissions(st, i, validationRules, context) ==
  IF i > Len(st.submissions) THEN st
  ELSE Only({initialSubmissions(next, i + 1, validationRules, context) :
               next \in {initialSubmissionStep(st, i, validationRules, context)}})

\* The empty function: a Record or count Map with no key.
EmptyMap == [x \in {} |-> 0]

\* Returns the valid contacts with what the pass wrote into its arguments:
\* the scoring details, the blacklist tallies and the submissions' bands.
applyInitialValidation(subs, rulesContext, validationRules, participantCallsigns, blacklistedCallsigns) ==
  initialSubmissions(
    [submissions |-> subs, validContacts |-> <<>>, scoringDetails |-> EmptyMap,
     blacklistedCallsignsFound |-> {}, blacklistedAppearanceCounts |-> EmptyMap],
    1, validationRules,
    [contestRules |-> rulesContext.contestRules,
     participantCallsigns |-> participantCallsigns,
     timeRanges |-> rulesContext.timeRanges,
     bandRanges |-> rulesContext.bandRanges,
     blacklistedCallsigns |-> blacklistedCallsigns,
     contestStart |-> rulesContext.contestStart,
     contestEnd |-> rulesContext.contestEnd])

-----------------------------------------------------------------------------
(* lib/validator: createContactIndex, applyDefaultValidation;              *)
(* lib/rules/validators: defaultValidator                                  *)

\* a JavaScript Set in insertion order: a sequence without repeats
SetAdd(s, x) == IF x \in Range(s) THEN s ELSE Append(s, x)

RECURSIVE SetAddAll(_, _)
SetAddAll(s, xs) ==
  IF xs = <<>> THEN s
  ELSE Only({SetAddAll(next, Tail(xs)) : next \in {SetAdd(s, Head(xs))}})

\* the contacts of every entry of a Map, in iteration order
RECURSIVE allContacts(_)
allContacts(m) == IF m = <<>> THEN <<>> ELSE Head(m).val \o allContacts(Tail(m))

bandModeKey(band, mode) == band \o "-" \o mode

\* index.get(a).get(b).get(key) is the contacts of a's log with b under key:
\* the index is held as the contacts it was built from
createContactIndex(validContactsMap) == Range(allContacts(validContactsMap))

indexGet(contactIndex, owner, contacted, key) ==
  {c \in contactIndex : /\ c.callsign = owner
                        /\ c.contactedCallsign = contacted
                        /\ bandModeKey(c.band, c.mode) = key}

\* x || d for a numeric parameter: unset and 0 both give d
OrDefault(x, d) == IF x = unset \/ x = 0 THEN d ELSE x

\* the match of one candidate of the other log against the contact
candidateMatches(contact, validContact, maximumTimeDiff, maximumFrequencyDiff) ==
  LET contactDateTime == parseDateTime(contact.date, contact.time)
      freqNum == IF contact.freq # "" THEN Number(contact.freq) ELSE NaN
      validContactDateTime == parseDateTime(validContact.date, validContact.time)
      timeDiff == getTimeDiffInMinutes(contactDateTime, validContactDateTime)
      timeMatch == Le(timeDiff, maximumTimeDiff)
      freqMatch == areFrequenciesWithinTolerance(freqNum, validContact.freq,
                                                 maximumFrequencyDiff)
      rstMatch ==
        \/ contact.exchanges.rstSent = "" /\ contact.exchanges.rstRcvd = ""
        \/ /\ contact.exchanges.rstSent = validContact.exchanges.rstRcvd
           /\ contact.exchanges.rstRcvd = validContact.exchanges.rstSent
      hasExchangeInfo ==
        \/ contact.exchanges.stxString # ""
        \/ contact.exchanges.srxString # ""
        \/ validContact.exchanges.stxString # ""
        \/ validContact.exchanges.srxString # ""
      exchangeMatch ==
        \/ ~hasExchangeInfo
        \/ /\ contact.exchanges.stxString = validContact.exchanges.srxString
           /\ contact.exchanges.srxString = validContact.exchanges.stxString
  IN timeMatch /\ freqMatch /\ rstMatch /\ exchangeMatch

defaultValidator(callsign, contact, contactIndex, params) ==
  LET maximumTimeDiff == OrDefault(params.maximumTimeDiff, 2)
      maximumFrequencyDiff == OrDefault(params.maximumFrequencyDiff, 2)
      potentialMatches == indexGet(contactIndex, contact.contactedCallsign, callsign,
                                   bandModeKey(contact.band, contact.mode))
  IN \E validContact \in potentialMatches :
       candidateMatches(contact, validContact, maximumTimeDiff, maximumFrequencyDiff)

\* the parameter object of the default rule, {} when it has none
defaultParamsOf(r) ==
  IF extractRule(r.validation, "default").hasParam
  THEN extractRule(r.validation, "default").param
  ELSE [maximumTimeDiff |-> unset, maximumFrequencyDiff |-> unset]

\* A faulty filter: a contact with a station that submitted no log is kept
\* whatever allowMissingParticipants says.
defaultKeepsEveryMissing(callsign, contact, context, params) ==
  IF contact.contactedCallsign \in context.blacklistedCallsigns THEN FALSE
  ELSE IF contact.contactedCallsign \notin context.participantCallsigns THEN TRUE
  ELSE defaultValidator(callsign, contact, context.contactIndex, params)

\* the filter applyDefaultValidation runs over a participant's contacts
defaultKeeps(callsign, contact, context, params) ==
  IF contact.contactedCallsign \in context.blacklistedCallsigns THEN FALSE
  ELSE IF contact.contactedCallsign \notin context.participantCallsigns
  THEN context.contestRules.allowMissingParticipants
  ELSE defaultValidator(callsign, contact, context.contactIndex, params)

\* the contacts the filter marks invalidValidationRule = 'default'
defaultMarks(callsign, contact, context, params) ==
  /\ contact.contactedCallsign \notin context.blacklistedCallsigns
  /\ contact.contactedCallsign \in context.participantCallsigns
  /\ ~defaultValidator(callsign, contact, context.contactIndex, params)

\* Returns the result Map with what the pass wrote into its context: the
\* scoring details, the missing participants and the blacklisted callsigns found.
applyDefaultValidation(validContactsMap, context, params) ==
  LET entries == SelectSeq(validContactsMap,
                           LAMBDA e : e.key \notin context.blacklistedCallsigns)
      reached == allContacts(entries)
      missing == SelectSeq(reached, LAMBDA c :
                   /\ c.contactedCallsign \notin context.blacklistedCallsigns
                   /\ c.contactedCallsign \notin context.participantCallsigns)
  IN [result |->
        [i \in 1..Len(entries) |->
           [key |-> entries[i].key,
            val |-> SelectSeq(entries[i].val, LAMBDA c :
                      defaultKeeps(entries[i].key, c, context, params)),
            isNull |-> FALSE]],
      scoringDetails |->
        [x \in DOMAIN context.scoringDetails |->
           [context.scoringDetails[x] EXCEPT !.contacts =
              [j \in 1..Len(@) |->
                 IF \E c \in Range(reached) :
                      /\ c.callsign = x
                      /\ c.scoringDetailsIndex = j
                      /\ defaultMarks(x, c, context, params)
                 THEN [@[j] EXCEPT !.invalidValidationRule = "default"]
                 ELSE @[j]]]],
      missingParticipants |->
        SetAddAll(context.missingParticipants,
                  [i \in 1..Len(missing) |-> missing[i].contactedCallsign]),
      blacklistedCallsignsFound |->
        context.blacklistedCallsignsFound
          \cup {validContactsMap[i].key : i \in
                  {k \in 1..Len(validContactsMap) :
                     validContactsMap[k].key \in context.blacklistedCallsigns}}
          \cup {c.callsign : c \in
                  {d \in Range(reached) :
                     d.contactedCallsign \in context.blacklistedCallsigns}}]

-----------------------------------------------------------------------------
(* lib/validator: applyUniqueContactsByTimeRangeValidation;                *)
(* lib/rules/validators: uniqueContactsByTimeRangeValidator                *)

\* whether an instant lies in a range
inRange(dateTime, range) == Ge(dateTime, range.start) /\ Le(dateTime, range.end)

\* Object.entries(timeRanges).find(...)?.[0]: the index of the first range that
\* holds the instant, 0 when none does
currentRangeOf(dateTime, timeRanges) ==
  LET hits == {i \in 1..Len(timeRanges) : inRange(dateTime, timeRanges[i])}
  IN IF hits = {} THEN 0 ELSE CHOOSE i \in hits : \A j \in hits : i <= j

\* existingContacts is validContacts.get(callsign) || []
uniqueContactsByTimeRangeValidator(callsign, contact, existingContacts, timeRanges) ==
  LET contactedCallsign == Field(contact, "contactedCallsign")
      dt == getDateTimeFromContact(contact)
      contactDateTime == parseDateTime(dt.date, dt.time)
      currentRange == currentRangeOf(contactDateTime, timeRanges)
      existingContactsInSameRange ==
        SelectSeq(existingContacts, LAMBDA existing :
          /\ existing.contactedCallsign = contactedCallsign
          /\ inRange(parseDateTime(existing.date, existing.time),
                     timeRanges[currentRange]))
  IN IF contactedCallsign = "" THEN FALSE
     ELSE IF dt.date = "" \/ dt.time = "" THEN FALSE
     ELSE IF currentRange = 0 THEN FALSE
     ELSE Len(existingContactsInSameRange) = 0

\* the contacts of one participant the replay keeps, in order
RECURSIVE uniqueReplay(_, _, _, _, _)
uniqueReplay(kept, callsign, contacts, i, timeRanges) ==
  IF i > Len(contacts) THEN kept
  ELSE Only({uniqueReplay(next, callsign, contacts, i + 1, timeRanges) :
               next \in {IF uniqueContactsByTimeRangeValidator(callsign, contacts[i], kept,
                                                               timeRanges)
                         THEN Append(kept, contacts[i]) ELSE kept}})

\* Returns the result Map with the scoring details it wrote.
applyUniqueContactsByTimeRangeValidation(validContactsMap, timeRanges, details) ==
  Only({
    [result |-> result,
     scoringDetails |->
       [x \in DOMAIN details |->
          IF MapHas(validContactsMap, x)
          THEN [details[x] EXCEPT !.contacts =
                  [j \in 1..Len(@) |->
                     IF \E c \in Range(MapGet(validContactsMap, x)) :
                          /\ c \notin Range(MapGet(result, x))
                          /\ c.scoringDetailsIndex = j
                     THEN [@[j] EXCEPT !.invalidValidationRule = "uniqueContactsByTimeRange",
                                       !.givenScore = 0,
                                       !.scoreRule = "null"]
                     ELSE @[j]]]
          ELSE details[x]]] :
    result \in {[i \in 1..Len(validContactsMap) |->
                  [key |-> validContactsMap[i].key,
                   val |-> uniqueReplay(<<>>, validContactsMap[i].key,
                                        validContactsMap[i].val, 1, timeRanges),
                   isNull |-> FALSE]]}})

-----------------------------------------------------------------------------
(* lib/validator: countAppearances *)

\* true, false or undefined as the text of it
BoolText(b) == IF b THEN "true" ELSE "false"

\* A contacted callsign counted for the log in hand.  acc holds the counts, the
\* callsigns already counted for this log, the scoring details and the missing
\* participants.
countNew(acc, contact, validContactsMap, minimumAppearances, allowMissingParticipants) ==
  LET contactedCallsign == contact.contactedCallsign
      appearances == GetOr0(acc.appearanceCounts, contactedCallsign) + 1
  IN [appearanceCounts |-> SetCount(acc.appearanceCounts, contactedCallsign, appearances),
      localAppearances |-> acc.localAppearances \cup {contactedCallsign},
      scoringDetails |->
        IF contactedCallsign \in DOMAIN acc.scoringDetails
        THEN [acc.scoringDetails EXCEPT ![contactedCallsign].hasMinimumAppearances =
                BoolText(appearances >= minimumAppearances)]
        ELSE acc.scoringDetails,
      missingParticipants |->
        IF allowMissingParticipants /\ ~MapHas(validContactsMap, contactedCallsign)
        THEN SetAdd(acc.missingParticipants, contactedCallsign)
        ELSE acc.missingParticipants]

\* A faulty step: every contact counts, also a repeat within one log.
countStepPerContact(acc, contact, validContactsMap, minimumAppearances, allowMissingParticipants) ==
  countNew(acc, contact, validContactsMap, minimumAppearances, allowMissingParticipants)

\* One contact of the loops: counted unless its callsign is already counted for
\* this log.
countStep(acc, contact, validContactsMap, minimumAppearances, allowMissingParticipants) ==
  IF contact.contactedCallsign \in acc.localAppearances THEN acc
  ELSE countNew(acc, contact, validContactsMap, minimumAppearances,
                allowMissingParticipants)

RECURSIVE countContacts(_, _, _, _, _, _)
countContacts(acc, contacts, i, validContactsMap, minimumAppearances, allowMissing) ==
  IF i > Len(contacts) THEN acc
  ELSE Only({countContacts(next, contacts, i + 1, validContactsMap, minimumAppearances,
                           allowMissing) :
               next \in {countStep(acc, contacts[i], validContactsMap, minimumAppearances,
                                   allowMissing)}})

RECURSIVE countEntries(_, _, _, _, _)
countEntries(acc, e, validContactsMap, minimumAppearances, allowMissing) ==
  IF e > Len(validContactsMap) THEN acc
  ELSE Only({countEntries(next, e + 1, validContactsMap, minimumAppearances, allowMissing) :
               next \in {countContacts([acc EXCEPT !.localAppearances = {}],
                                       validContactsMap[e].val, 1, validContactsMap,
                                       minimumAppearances, allowMissing)}})

\* Returns the counts with the scoring details and missing participants it wrote.
countAppearances(validContactsMap, minimumAppearances, rulesContext, missing, details) ==
  countEntries(
    [appearanceCounts |-> EmptyMap, localAppearances |-> {},
     scoringDetails |-> details, missingParticipants |-> missing],
    1, validContactsMap, minimumAppearances,
    rulesContext.contestRules.allowMissingParticipants)

-----------------------------------------------------------------------------
(* lib/rules/validators: minimumContactsValidator *)

\* A faulty loop: placeholders are made whatever allowMissingParticipants says.
missingParticipantsResultRegardless(validContactsMap, minimumAppearances, rulesContext, missing, counts) ==
  LET eligible == SelectSeq(missing, LAMBDA missingCallsign :
                    /\ GetOr0(counts, missingCallsign) >= minimumAppearances
                    /\ ~MapHas(validContactsMap, missingCallsign))
  IN [i \in 1..Len(eligible) |-> [key |-> eligible[i], val |-> <<>>, isNull |-> TRUE]]

\* the placeholder entries: the missing participants, in the Set's order, that
\* appear often enough and have no entry
missingParticipantsResult(validContactsMap, minimumAppearances, rulesContext, missing, counts) ==
  IF rulesContext.contestRules.allowMissingParticipants
  THEN LET eligible == SelectSeq(missing, LAMBDA missingCallsign :
                         /\ GetOr0(counts, missingCallsign) >= minimumAppearances
                         /\ ~MapHas(validContactsMap, missingCallsign))
       IN [i \in 1..Len(eligible) |-> [key |-> eligible[i], val |-> <<>>, isNull |-> TRUE]]
  ELSE <<>>

\* A faulty test: one appearance short of the threshold passes.
hasMinimumAppearancesOneShort(callsign, minimumAppearances, counts) ==
  GetOr0(counts, callsign) + 1 >= minimumAppearances

\* whether the participant of an entry appears in enough logs
hasMinimumAppearances(callsign, minimumAppearances, counts) ==
  GetOr0(counts, callsign) >= minimumAppearances

\* A faulty filter: a participant that stays loses its contacts with the
\* callsigns that appear in too few logs.
minimumContactsValidatorPruning(validContactsMap, minimumAppearances, rulesContext, details, missing, counts) ==
  [result |->
     [i \in 1..Len(SelectSeq(validContactsMap, LAMBDA e :
                       hasMinimumAppearances(e.key, minimumAppearances, counts))) |->
        [SelectSeq(validContactsMap, LAMBDA e :
           hasMinimumAppearances(e.key, minimumAppearances, counts))[i]
         EXCEPT !.val = SelectSeq(@, LAMBDA c :
           hasMinimumAppearances(c.contactedCallsign, minimumAppearances, counts))]]
     \o missingParticipantsResult(validContactsMap, minimumAppearances, rulesContext,
                                  missing, counts),
   scoringDetails |-> details]

\* Returns the filtered Map with the scoring details it wrote
\* (givenScore ??= 0 on the contacts of a removed participant).
minimumContactsValidator(validContactsMap, minimumAppearances, rulesContext, details, missing, counts) ==
  [result |->
     SelectSeq(validContactsMap, LAMBDA e :
       hasMinimumAppearances(e.key, minimumAppearances, counts))
     \o missingParticipantsResult(validContactsMap, minimumAppearances, rulesContext,
                                  missing, counts),
   scoringDetails |->
     [x \in DOMAIN details |->
        IF MapHas(validContactsMap, x)
           /\ ~hasMinimumAppearances(x, minimumAppearances, counts)
        THEN [details[x] EXCEPT !.contacts =
                [j \in 1..Len(@) |->
                   IF (\E c \in Range(MapGet(validContactsMap, x)) :
                         c.scoringDetailsIndex = j) /\ @[j].givenScore = unset
                   THEN [@[j] EXCEPT !.givenScore = 0]
                   ELSE @[j]]]
        ELSE details[x]]]

-----------------------------------------------------------------------------
(* lib/validator: validateContacts *)

\* (minimumContactsRule?.[1] as number | undefined) || 0
minimumAppearancesOf(r) ==
  IF HasRule(r.validation, "minimumContacts")
     /\ extractRule(r.validation, "minimumContacts").hasParam
  THEN extractRule(r.validation, "minimumContacts").param
  ELSE 0

\* A faulty choice: the count runs over the contacts as the initial pass left
\* them.
countedContactsOfInitialPass(initialPass, s3, s4) == initialPass.validContacts

\* the Map countAppearances is handed: contactsAfterUniqueValidation
countedContacts(initialPass, s3, s4) == s4.result

\* The stages in their fixed order.  Each stage's result is kept under the name
\* of validateContacts' local that holds it.
validateContacts(subs, rulesContext) ==
  LET contestRules == rulesContext.contestRules
      blacklistedCallsigns == contestRules.blacklist
      participantCallsigns == participantCallsignsOf(subs, blacklistedCallsigns)
      initialPass ==
        applyInitialValidation(subs, rulesContext, initialValidationRules(contestRules),
                               participantCallsigns, blacklistedCallsigns)
      defaultPass(s1, contactIndex) ==
        IF HasRule(contestRules.validation, "default")
        THEN applyDefaultValidation(
               s1.validContacts,
               [contestRules |-> contestRules,
                participantCallsigns |-> participantCallsigns,
                contactIndex |-> contactIndex,
                blacklistedCallsigns |-> blacklistedCallsigns,
                blacklistedCallsignsFound |-> s1.blacklistedCallsignsFound,
                scoringDetails |-> s1.scoringDetails,
                missingParticipants |-> <<>>],
               defaultParamsOf(contestRules))
        ELSE [result |-> s1.validContacts,
              scoringDetails |-> s1.scoringDetails,
              missingParticipants |-> <<>>,
              blacklistedCallsignsFound |-> s1.blacklistedCallsignsFound]
      uniquePass(s3) ==
        IF HasRule(contestRules.validation, "uniqueContactsByTimeRange")
        THEN applyUniqueContactsByTimeRangeValidation(
               s3.result, rulesContext.timeRanges, s3.scoringDetails)
        ELSE [result |-> s3.result, scoringDetails |-> s3.scoringDetails]
      count(s1, s3, s4) ==
        countAppearances(countedContacts(s1, s3, s4), minimumAppearancesOf(contestRules), rulesContext,
                         s3.missingParticipants, s4.scoringDetails)
      minimumPass(s4, s5) ==
        IF HasRule(contestRules.validation, "minimumContacts")
           /\ extractRule(contestRules.validation, "minimumContacts").hasParam
        THEN minimumContactsValidator(
               s4.result, extractRule(contestRules.validation, "minimumContacts").param,
               rulesContext, s5.scoringDetails, s5.missingParticipants,
               s5.appearanceCounts)
        ELSE [result |-> s4.result, scoringDetails |-> s5.scoringDetails]
  IN Only({Only({Only({Only({Only({Only({
       [submissions |-> s1.submissions,
        initialValidContacts |-> s1.validContacts,
        contactsAfterDefaultValidation |-> s3.result,
        contactsAfterUniqueValidation |-> s4.result,
        validContacts |-> s6.result,
        scoringDetails |-> s6.scoringDetails,
        missingParticipants |-> s5.missingParticipants,
        blacklistedCallsignsFound |-> s3.blacklistedCallsignsFound,
        appearanceCounts |-> s5.appearanceCounts,
        blacklistedAppearanceCounts |-> s1.blacklistedAppearanceCounts] :
       s6 \in {minimumPass(s4, s5)}}) :
       s5 \in {count(s1, s3, s4)}}) :
       s4 \in {uniquePass(s3)}}) :
       s3 \in {defaultPass(s1, contactIndex)}}) :
       contactIndex \in {createContactIndex(s1.validContacts)}}) :
       s1 \in {initialPass}})

-----------------------------------------------------------------------------
(* lib/rules/scorers, lib/scorer: scoreContacts *)

\* score: number = 1
defaultScorer(rule) == IF rule.hasParam THEN rule.param ELSE 1

\* params[rangeName] ?? validContact.score for the first range that holds the
\* contact's instant
timeRangeScorer(validContact, context, rule) ==
  LET contactDateTime == parseDateTime(validContact.date, validContact.time)
      r == currentRangeOf(contactDateTime, context.timeRanges)
  IN IF r = 0 THEN validContact.score
     ELSE IF rule.hasParam /\ context.timeRanges[r].name \in DOMAIN rule.param
     THEN rule.param[context.timeRanges[r].name]
     ELSE validContact.score

\* A faulty scorer: the station's points are added to the score so far.
bonusStationsScorerAdds(validContact, rule) ==
  IF rule.hasParam /\ validContact.contactedCallsign \in DOMAIN rule.param
  THEN validContact.score + rule.param[validContact.contactedCallsign]
  ELSE validContact.score

\* params[contactedCallsign] ?? validContact.score
bonusStationsScorer(validContact, rule) ==
  IF rule.hasParam /\ validContact.contactedCallsign \in DOMAIN rule.param
  THEN rule.param[validContact.contactedCallsign]
  ELSE validContact.score

\* scorers[ruleName](scoredContact, context, params)
scorers(rule, scoredContact, context) ==
  CASE rule.name = "default" -> defaultScorer(rule)
    [] rule.name = "timeRange" -> timeRangeScorer(scoredContact, context, rule)
    [] rule.name = "bonusStations" -> bonusStationsScorer(scoredContact, rule)

\* The fold of the scoring rules over one contact: acc is the contact as scored
\* so far and its scoring-detail entry.
RECURSIVE scoreFold(_, _, _, _)
scoreFold(acc, otherScoringRules, i, context) ==
  IF i > Len(otherScoringRules) THEN acc
  ELSE LET score == scorers(otherScoringRules[i], acc.contact, context) IN
    Only({scoreFold(next, otherScoringRules, i + 1, context) :
            next \in {[contact |-> [acc.contact EXCEPT !.score = score],
                       detail |-> IF acc.contact.score # score
                                  THEN [acc.detail EXCEPT
                                          !.scoreRule = otherScoringRules[i].name,
                                          !.givenScore = score]
                                  ELSE acc.detail]}})

\* A faulty test: one appearance short of the threshold still scores.
belowMinimumAppearancesOneShort(contact, hasMinimumContactsRule, minimumContacts, counts) ==
  hasMinimumContactsRule /\ GetOr0(counts, contact.contactedCallsign) + 1 < minimumContacts

\* whether the scoring-level minimumContacts rule stops a contact from scoring
belowMinimumAppearances(contact, hasMinimumContactsRule, minimumContacts, counts) ==
  hasMinimumContactsRule /\ GetOr0(counts, contact.contactedCallsign) < minimumContacts

\* A faulty map: the contact is scored and its scoring-detail entry is left as
\* it was.
scoreOneUnrecorded(contact, detail, hasMinimumContactsRule, minimumContacts, otherScoringRules, context, counts) ==
  [contact |->
     IF belowMinimumAppearances(contact, hasMinimumContactsRule, minimumContacts, counts)
     THEN [contact EXCEPT !.score = 0]
     ELSE scoreFold([contact |-> [contact EXCEPT !.score = 0], detail |-> detail],
                    otherScoringRules, 1, context).contact,
   detail |-> detail]

\* one contact of contacts.map(...)
scoreOne(contact, detail, hasMinimumContactsRule, minimumContacts, otherScoringRules, context, counts) ==
  IF belowMinimumAppearances(contact, hasMinimumContactsRule, minimumContacts, counts)
  THEN [contact |-> [contact EXCEPT !.score = 0],
        detail |-> [detail EXCEPT !.scoreRule = "minimumContacts", !.givenScore = 0]]
  ELSE scoreFold([contact |-> [contact EXCEPT !.score = 0], detail |-> detail],
                 otherScoringRules, 1, context)

\* whether the participant has fewer logged contacts than the scoring-level
\* minimumContacts rule asks for
belowMinimumContacts(callsign, hasMinimumContactsRule, minimumContacts, details) ==
  /\ hasMinimumContactsRule
  /\ (IF callsign \in DOMAIN details THEN Len(details[callsign].contacts) ELSE 0)
       < minimumContacts

\* A faulty reduce: a placeholder is scored as a log without contacts.
scoredEntriesWithPlaceholders(validContactsMap) == validContactsMap

\* if (contacts === null) return result: the entries the reduce scores
scoredEntries(validContactsMap) == SelectSeq(validContactsMap, LAMBDA e : ~e.isNull)

\* Returns the scored Map with the scoring details it wrote.
scoreContacts(validContactsMap, rulesContext, details, counts) ==
  LET scoring == rulesContext.contestRules.scoring
      hasMinimumContactsRule == HasRule(scoring, "minimumContacts")
      minimumContacts ==
        IF hasMinimumContactsRule /\ extractRule(scoring, "minimumContacts").hasParam
        THEN extractRule(scoring, "minimumContacts").param ELSE 0
      otherScoringRules == SelectSeq(scoring, LAMBDA rule : rule.name # "minimumContacts")
      context == [timeRanges |-> rulesContext.timeRanges]
      entries == scoredEntries(validContactsMap)
      scored(e, c) == scoreOne(c, details[e.key].contacts[c.scoringDetailsIndex],
                               hasMinimumContactsRule, minimumContacts, otherScoringRules,
                               context, counts)
      skipped(callsign) ==
        belowMinimumContacts(callsign, hasMinimumContactsRule, minimumContacts, details)
  IN [result |->
        [i \in 1..Len(entries) |->
           [key |-> entries[i].key,
            val |-> IF skipped(entries[i].key) THEN <<>>
                    ELSE [k \in 1..Len(entries[i].val) |->
                            scored(entries[i], entries[i].val[k]).contact],
            isNull |-> FALSE]],
      scoringDetails |->
        [x \in DOMAIN details |->
           IF MapHas(entries, x) /\ ~skipped(x)
           THEN [details[x] EXCEPT !.contacts =
                   [j \in 1..Len(@) |->
                      LET cs == {c \in Range(MapGet(entries, x)) : c.scoringDetailsIndex = j}
                      IN IF cs = {} THEN @[j]
                         ELSE scored([key |-> x], CHOOSE c \in cs : TRUE).detail]]
           ELSE details[x]]]

-----------------------------------------------------------------------------
(* lib/rules/bonusers, lib/bonus: applyBonusRules *)

\* multiplier: number = 1
defaultBonus(score, rule) == score * (IF rule.hasParam THEN rule.param ELSE 1)

\* bonusers[ruleName](currentScore, context, params)
bonusers(rule, currentScore) == defaultBonus(currentScore, rule)

\* The fold of the bonus rules over the base score: acc is the score so far and
\* the participant's bonusRuleApplied and givenBonus.
RECURSIVE bonusFold(_, _, _)
bonusFold(acc, bonusRules, i) ==
  IF i > Len(bonusRules) THEN acc
  ELSE LET score == bonusers(bonusRules[i], acc.score) IN
    Only({bonusFold(next, bonusRules, i + 1) :
            next \in {IF score # acc.score
                      THEN [score |-> score, bonusRuleApplied |-> bonusRules[i].name,
                            givenBonus |-> score - acc.score]
                      ELSE acc}})

baseScoreOf(contacts) == SumSeq([k \in 1..Len(contacts) |-> contacts[k].score])

bonusOf(contacts, r) ==
  bonusFold([score |-> baseScoreOf(contacts), bonusRuleApplied |-> "null", givenBonus |-> 0],
            r.bonus, 1)

\* Returns the ScoringResult list with the scoring details it wrote.
applyBonusRules(scored, r, details) ==
  [results |->
     [i \in 1..Len(scored) |->
        [callsign |-> scored[i].key, score |-> bonusOf(scored[i].val, r).score]],
   scoringDetails |->
     [x \in DOMAIN details |->
        IF MapHas(scored, x)
        THEN [details[x] EXCEPT
                !.bonusRuleApplied = bonusOf(MapGet(scored, x), r).bonusRuleApplied,
                !.givenBonus = bonusOf(MapGet(scored, x), r).givenBonus]
        ELSE details[x]]]

-----------------------------------------------------------------------------
(* lib/rules/tiebreakers, lib/tiebreaker: applyTiebreakers *)

contactsOf(scored, a) == IF MapHas(scored, a) THEN MapGet(scored, a) ELSE <<>>

\* A comparison is [decided, sign]: decided when the rule's result !== 0, sign
\* what sort makes of it (a NaN result is !== 0 and sorts as 0).
Undecided == [decided |-> FALSE, sign |-> 0]
Decided(n) == [decided |-> n # 0, sign |-> n]

\* A faulty default rule: it always puts the second of a pair first.
defaultTiebreakerPrefersSecond == Decided(1)

defaultTiebreaker == Undecided

\* A faulty rule: the participant with fewer stations comes first.
validStationsTiebreakerFewerFirst(a, b, scored) ==
  LET uniqueStationsA == Cardinality({c.contactedCallsign : c \in Range(contactsOf(scored, a))})
      uniqueStationsB == Cardinality({c.contactedCallsign : c \in Range(contactsOf(scored, b))})
  IN Decided(uniqueStationsA - uniqueStationsB)

validStationsTiebreaker(a, b, scored) ==
  LET uniqueStationsA == Cardinality({c.contactedCallsign : c \in Range(contactsOf(scored, a))})
      uniqueStationsB == Cardinality({c.contactedCallsign : c \in Range(contactsOf(scored, b))})
  IN Decided(uniqueStationsB - uniqueStationsA)

\* lastX - firstX over the contacts' instants; NaN when one does not parse
timeSpanOf(contacts) ==
  LET dates == {parseDateTime(c.date, c.time) : c \in Range(contacts)}
  IN IF NaN \in dates THEN NaN
     ELSE (CHOOSE d \in dates : \A e \in dates : e <= d)
          - (CHOOSE d \in dates : \A e \in dates : d <= e)

minimumTimeTiebreaker(a, b, scored) ==
  LET contactsA == contactsOf(scored, a)
      contactsB == contactsOf(scored, b)
  IN IF Len(contactsA) <= 1 /\ Len(contactsB) <= 1 THEN Undecided
     ELSE IF Len(contactsA) <= 1 THEN Decided(1)
     ELSE IF Len(contactsB) <= 1 THEN Decided(-1)
     ELSE IF isNaN(timeSpanOf(contactsA)) \/ isNaN(timeSpanOf(contactsB))
     THEN [decided |-> TRUE, sign |-> 0]
     ELSE Decided(timeSpanOf(contactsA) - timeSpanOf(contactsB))

\* tiebreakers[rule](a, b, scoredContacts); a name that is no tiebreaker is skipped
tiebreakers(rule, a, b, scored) ==
  CASE rule = "default" -> defaultTiebreaker
    [] rule = "validStations" -> validStationsTiebreaker(a, b, scored)
    [] rule = "minimumTime" -> minimumTimeTiebreaker(a, b, scored)
    [] OTHER -> Undecided

\* the comparator handed to sort: the first rule whose result !== 0 decides
RECURSIVE compareByRules(_, _, _, _, _)
compareByRules(tiebreaker, i, a, b, scored) ==
  IF i > Len(tiebreaker) THEN 0
  ELSE IF tiebreakers(tiebreaker[i], a, b, scored).decided
  THEN tiebreakers(tiebreaker[i], a, b, scored).sign
  ELSE compareByRules(tiebreaker, i + 1, a, b, scored)

\* Array.prototype.sort is stable: an element goes after every element that
\* does not compare greater than it.  cmp(x, y) > 0 puts y first.
\* The comparator is the function cmp[<<x, y>>] over the elements.
RECURSIVE insertSorted(_, _, _)
insertSorted(sorted, x, cmp) ==
  IF sorted = <<>> THEN <<x>>
  ELSE IF cmp[<<Head(sorted), x>>] > 0 THEN <<x>> \o sorted
  ELSE <<Head(sorted)>> \o insertSorted(Tail(sorted), x, cmp)

RECURSIVE stableSort(_, _)
stableSort(xs, cmp) ==
  IF xs = <<>> THEN <<>>
  ELSE Only({insertSorted(sorted, xs[Len(xs)], cmp) :
               sorted \in {stableSort(SubSeq(xs, 1, Len(xs) - 1), cmp)}})

\* A faulty comparator: the lower score first.
byScoreAscending(xs) == [p \in Range(xs) \X Range(xs) |-> p[1].score - p[2].score]

\* (a, b) => b[1] - a[1]
byScoreDescending(xs) == [p \in Range(xs) \X Range(xs) |-> p[2].score - p[1].score]

applyTiebreakers(res, scored, r) ==
  IF Len(r.tiebreaker) = 0 THEN res
  ELSE LET byScore == stableSort(res, byScoreDescending(res))
           \* the callsigns of a score, in the order they came in
           group(score) == SelectSeq(res, LAMBDA x : x.score = score)
           sortedGroup(score) ==
             IF Len(group(score)) = 1 THEN group(score)
             ELSE stableSort(group(score),
                    [p \in Range(group(score)) \X Range(group(score)) |->
                       compareByRules(r.tiebreaker, 1, p[1].callsign, p[2].callsign,
                                      scored)])
           \* byScore with each run of one score replaced by its sorted group
           place(i) == Len(SelectSeq(SubSeq(byScore, 1, i),
                                     LAMBDA x : x.score = byScore[i].score))
       IN [i \in 1..Len(byScore) |-> sortedGroup(byScore[i].score)[place(i)]]

-----------------------------------------------------------------------------
(* lib/index: scoreContest's assembly of the result *)

\* The callsigns of the model in localeCompare order.
Alphabet == <<"A", "B", "C", "D", "X", "Y">>
AlphaRank(c) == CHOOSE i \in 1..Len(Alphabet) : Alphabet[i] = c

SetToSortedSeq(S) ==
  SelectSeq(Alphabet, LAMBDA c : c \in S)

\* formatCounts(callsigns, counts)
formatCounts(callsigns, counts) ==
  LET sorted == SetToSortedSeq(callsigns)
  IN [i \in 1..Len(sorted) |-> [callsign |-> sorted[i], count |-> GetOr0(counts, sorted[i])]]

\* A faulty test: no callsign is taken for a non-competing one.
nonCompetingNever(result, r) == FALSE

\* nonCompetingCallsigns.has(result[0])
nonCompetingHas(result, r) == result.callsign \in r.nonCompeting

\* A faulty assembly: the non-competing participants are listed with score 0.
assembleResultZeroingNonCompeting(res, scored, r, missing, counts, found, blacklistedCounts) ==
  LET competingResults == SelectSeq(res, LAMBDA x : ~nonCompetingHas(x, r))
      nonCompetingResults == SelectSeq(res, LAMBDA x : nonCompetingHas(x, r))
      sortedResults == stableSort(competingResults, byScoreDescending(competingResults))
  IN [results |-> applyTiebreakers(sortedResults, scored, r),
      nonCompetingResults |->
        [i \in 1..Len(nonCompetingResults) |-> [nonCompetingResults[i] EXCEPT !.score = 0]],
      missingParticipants |-> formatCounts(Range(missing), counts),
      blacklistedCallsignsFound |-> formatCounts(found, blacklistedCounts)]

assembleResult(res, scored, r, missing, counts, found, blacklistedCounts) ==
  LET competingResults == SelectSeq(res, LAMBDA x : ~nonCompetingHas(x, r))
      nonCompetingResults == SelectSeq(res, LAMBDA x : nonCompetingHas(x, r))
      sortedResults == stableSort(competingResults, byScoreDescending(competingResults))
      sortedNonCompetingResults ==
        stableSort(nonCompetingResults, byScoreDescending(nonCompetingResults))
  IN [results |-> applyTiebreakers(sortedResults, scored, r),
      nonCompetingResults |-> sortedNonCompetingResults,
      missingParticipants |-> formatCounts(Range(missing), counts),
      blacklistedCallsignsFound |-> formatCounts(found, blacklistedCounts)]

\* scoreContest as one function of its arguments: the ContestResult.
scoreContest(subs, r) ==
  Only({Only({Only({
    [output |-> assembleResult(b.results, sc.result, r, v.missingParticipants,
                               v.appearanceCounts, v.blacklistedCallsignsFound,
                               v.blacklistedAppearanceCounts),
     scoringDetails |-> b.scoringDetails] :
    b \in {applyBonusRules(sc.result, r, sc.scoringDetails)}}) :
    sc \in {scoreContacts(v.validContacts, getRulesContext(r), v.scoringDetails,
                          v.appearanceCounts)}}) :
    v \in {validateContacts(subs, getRulesContext(r))}})

-----------------------------------------------------------------------------
(* scoreContest as a state machine: one action per call it makes *)

ValidateContacts ==
  /\ pc = "start"
  /\ \E v \in {validateContacts(submissions, getRulesContext(rules))} :
       /\ submissions' = v.submissions
       /\ initialValidContacts' = v.initialValidContacts
       /\ contactsAfterDefaultValidation' = v.contactsAfterDefaultValidation
       /\ contactsAfterUniqueValidation' = v.contactsAfterUniqueValidation
       /\ validContacts' = v.validContacts
       /\ scoringDetails' = v.scoringDetails
       /\ missingParticipants' = v.missingParticipants
       /\ blacklistedCallsignsFound' = v.blacklistedCallsignsFound
       /\ appearanceCounts' = v.appearanceCounts
       /\ blacklistedAppearanceCounts' = v.blacklistedAppearanceCounts
  /\ pc' = "validated"
  /\ UNCHANGED <<previous, rules, scoredContacts, results, output>>

ScoreContacts ==
  /\ pc = "validated"
  /\ \E sc \in {scoreContacts(validContacts, getRulesContext(rules), scoringDetails,
                                appearanceCounts)} :
       /\ scoredContacts' = sc.result
       /\ scoringDetails' = sc.scoringDetails
  /\ pc' = "scored"
  /\ UNCHANGED <<previous, submissions, rules, initialValidContacts, contactsAfterDefaultValidation,
                 contactsAfterUniqueValidation, validContacts, missingParticipants,
                 blacklistedCallsignsFound, appearanceCounts, blacklistedAppearanceCounts,
                 results, output>>

ApplyBonusRules ==
  /\ pc = "scored"
  /\ \E b \in {applyBonusRules(scoredContacts, rules, scoringDetails)} :
       /\ results' = b.results
       /\ scoringDetails' = b.scoringDetails
  /\ pc' = "bonused"
  /\ UNCHANGED <<previous, submissions, rules, initialValidContacts, contactsAfterDefaultValidation,
                 contactsAfterUniqueValidation, validContacts, missingParticipants,
                 blacklistedCallsignsFound, appearanceCounts, blacklistedAppearanceCounts,
                 scoredContacts, output>>

AssembleResult ==
  /\ pc = "bonused"
  /\ output' = assembleResult(results, scoredContacts, rules, missingParticipants,
                              appearanceCounts, blacklistedCallsignsFound,
                              blacklistedAppearanceCounts)
  /\ pc' = "done"
  /\ UNCHANGED <<previous, submissions, rules, initialValidContacts, contactsAfterDefaultValidation,
                 contactsAfterUniqueValidation, validContacts, scoringDetails,
                 missingParticipants, blacklistedCallsignsFound, appearanceCounts,
                 blacklistedAppearanceCounts, scoredContacts, results>>

Next == ValidateContacts \/ ScoreContacts \/ ApplyBonusRules \/ AssembleResult

-----------------------------------------------------------------------------
(* Inputs *)

\* The most contacts the submitted logs hold together.
MaxContacts == 2

\* A logged contact with every field given.
Contact(call, date, time, freq, band, mode, rstSent, rstRcvd, stx, srx) ==
  [call |-> call, qso_date |-> date, time_on |-> time, freq |-> freq, band |-> band,
   mode |-> mode, rst_sent |-> rstSent, rst_rcvd |-> rstRcvd,
   stx_string |-> stx, srx_string |-> srx]

\* A contact that differs from the others only in whom it is with.
PlainContact(call) ==
  Contact(call, "20250401", "120000", "7.000", "40m", "SSB", "", "", "", "")

Rule(name) == [name |-> name, hasParam |-> FALSE, param |-> 0]
RuleP(name, param) == [name |-> name, hasParam |-> TRUE, param |-> param]

\* The logs of three participants that hold at most n contacts together, each
\* contact drawn from a set.
LogTriples(contacts, n) ==
  UNION {[1..t[1] -> contacts] \X [1..t[2] -> contacts] \X [1..t[3] -> contacts] :
           t \in {u \in (0..n) \X (0..n) \X (0..n) : u[1] + u[2] + u[3] <= n}}

\* Submissions of A, B and C, in that order.
SubmissionsOf(logs) ==
  <<[callsign |-> "A", contacts |-> logs[1]],
    [callsign |-> "B", contacts |-> logs[2]],
    [callsign |-> "C", contacts |-> logs[3]]>>

ContestRules(blacklist, allowMissing, nonCompeting, validation, scoring, bonus, tiebreaker) ==
  [start |-> 0, end |-> 2 * MinutesPerDay - 1,
   blacklist |-> blacklist, allowMissingParticipants |-> allowMissing,
   nonCompeting |-> nonCompeting,
   validation |-> validation, scoring |-> scoring, bonus |-> bonus,
   tiebreaker |-> tiebreaker]

\* The state scoreContest starts in, for submissions and rules of given sets.
InitWith(subsSet, rulesSet) ==
  /\ submissions \in subsSet
  /\ rules \in rulesSet
  /\ pc = "start"
  /\ initialValidContacts = <<>>
  /\ contactsAfterDefaultValidation = <<>>
  /\ contactsAfterUniqueValidation = <<>>
  /\ validContacts = <<>>
  /\ scoringDetails = EmptyMap
  /\ missingParticipants = <<>>
  /\ blacklistedCallsignsFound = {}
  /\ appearanceCounts = EmptyMap
  /\ blacklistedAppearanceCounts = EmptyMap
  /\ scoredContacts = <<>>
  /\ results = <<>>
  /\ output = [results |-> <<>>, nonCompetingResults |-> <<>>,
               missingParticipants |-> <<>>, blacklistedCallsignsFound |-> <<>>]
  /\ previous = <<>>

\* Validation in every combination of the blacklist, allowMissingParticipants,
\* the non-competing list, the rule that asks for the other party's log and the
\* minimumContacts threshold.
ValidationChoices ==
  {<<>>, <<Rule("default")>>, <<Rule("contactedInContest")>>}

MinimumContactsChoices ==
  {<<>>, <<RuleP("minimumContacts", 1)>>, <<RuleP("minimumContacts", 2)>>}

PipelineRules ==
  {ContestRules(bl, am, nc, v \o mc, <<Rule("default")>>, <<Rule("default")>>, <<>>) :
     bl \in {{}, {"B"}, {"X"}}, am \in BOOLEAN, nc \in {{}, {"A"}},
     v \in ValidationChoices, mc \in MinimumContactsChoices}

PipelineSubmissions ==
  {SubmissionsOf(logs) :
     logs \in LogTriples({PlainContact(c) : c \in {"A", "B", "C", "X"}}, MaxContacts)}

Init == InitWith(PipelineSubmissions, PipelineRules)

Spec == Init /\ [][Next]_vars

-----------------------------------------------------------------------------
(* What the properties speak of *)

\* The callsigns that submitted a log.
Submitters == {submissions[i].callsign : i \in 1..Len(submissions)}

\* Every callsign that submits or is contacted.
Callsigns ==
  Submitters \cup UNION {{submissions[i].contacts[k].call :
                            k \in 1..Len(submissions[i].contacts)} :
                          i \in 1..Len(submissions)}

\* The log a callsign submitted.
LogOf(p) == submissions[CHOOSE i \in 1..Len(submissions) : submissions[i].callsign = p].contacts

\* The contacts a Map holds for a callsign, none when it has no entry.
ContactsIn(m, p) == IF MapHas(m, p) THEN MapGet(m, p) ELSE <<>>

\* The callsigns of a ranked list.
Ranked(list) == {list[i].callsign : i \in 1..Len(list)}

\* The score a ranked list gives a callsign.
ScoreIn(list, p) == list[CHOOSE i \in 1..Len(list) : list[i].callsign = p].score

Validated == pc # "start"
Scored == pc \in {"scored", "bonused", "done"}
Done == pc = "done"

\* The threshold of a minimumContacts rule of a rule list.
ThresholdOf(ruleList) == extractRule(ruleList, "minimumContacts").param

-----------------------------------------------------------------------------
(* Blacklist *)

\* C1: no blacklisted callsign is a key of the validated-contacts map, nor a
\* callsign of results or of nonCompetingResults.
BlacklistExcluded ==
  \A b \in rules.blacklist :
    /\ Validated => b \notin MapKeys(validContacts)
    /\ Done => /\ b \notin Ranked(output.results)
               /\ b \notin Ranked(output.nonCompetingResults)

\* A contest is over in which a blacklisted station submitted a log that holds
\* contacts and was contacted itself, and both ranked lists have an entry.
BlacklistExcludedWitness ==
  /\ Done
  /\ \E b \in rules.blacklist :
       /\ b \in Submitters
       /\ Len(LogOf(b)) > 0
       /\ \E p \in Submitters \ {b} : \E k \in 1..Len(LogOf(p)) : LogOf(p)[k].call = b
  /\ Len(output.results) > 0
  /\ Len(output.nonCompetingResults) > 0

-----------------------------------------------------------------------------
(* Appearance counts *)

\* The logs whose contacts that survive the stages before the count hold one
\* with c.
LogsWith(c) ==
  {i \in 1..Len(contactsAfterUniqueValidation) :
     \E k \in 1..Len(contactsAfterUniqueValidation[i].val) :
       contactsAfterUniqueValidation[i].val[k].contactedCallsign = c}

\* C2: the appearance count of every callsign is the number of distinct logs
\* whose surviving contacts hold at least one contact with it; a log that
\* holds several counts once.
AppearancesArePerLog ==
  Validated =>
    /\ \A c \in Callsigns : GetOr0(appearanceCounts, c) = Cardinality(LogsWith(c))
    /\ \A c \in DOMAIN appearanceCounts : c \in Callsigns

\* One log holds two surviving contacts with a callsign that no other log
\* contacts: the count is 1.
AppearancesArePerLogWitness ==
  /\ Validated
  /\ \E c \in Callsigns :
       /\ GetOr0(appearanceCounts, c) = 1
       /\ \E i \in LogsWith(c) :
            Len(SelectSeq(contactsAfterUniqueValidation[i].val,
                          LAMBDA x : x.contactedCallsign = c)) = 2

-----------------------------------------------------------------------------
(* Validation-level minimumContacts *)

\* C4: with a validation-level minimumContacts rule of threshold N, every
\* submitter that is still a key of the validated-contacts map appears in at
\* least N logs, and every submitter that appears in fewer is not a key.
MinimumContactsFilters ==
  (Validated /\ HasRule(rules.validation, "minimumContacts")) =>
    \A p \in Submitters :
      /\ p \in MapKeys(validContacts) =>
           GetOr0(appearanceCounts, p) >= ThresholdOf(rules.validation)
      /\ GetOr0(appearanceCounts, p) < ThresholdOf(rules.validation) =>
           p \notin MapKeys(validContacts)

\* With threshold 2 one submitter that two logs contact stays, and one that
\* fewer logs contact is dropped.
MinimumContactsFiltersWitness ==
  /\ Validated
  /\ HasRule(rules.validation, "minimumContacts")
  /\ ThresholdOf(rules.validation) = 2
  /\ \E p, q \in Submitters :
       /\ GetOr0(appearanceCounts, p) = 2
       /\ p \in MapKeys(validContacts)
       /\ GetOr0(appearanceCounts, q) < 2
       /\ q \notin MapKeys(validContacts)
       /\ MapHas(contactsAfterUniqueValidation, q)

-----------------------------------------------------------------------------
(* Contacts with stations that submitted no log *)

DetailOf(c) == scoringDetails[c.callsign].contacts[c.scoringDetailsIndex]

\* C8: under the default rule a contact that survives the initial pass and is
\* with a callsign that submitted no log is accepted exactly when
\* allowMissingParticipants is true, and when it is rejected its scoring-detail
\* entry has invalidValidationRule 'default'.
MissingContactRecordedAsDefault ==
  (Validated /\ HasRule(rules.validation, "default")) =>
    \A i \in 1..Len(initialValidContacts) :
      \A k \in 1..Len(initialValidContacts[i].val) :
        LET c == initialValidContacts[i].val[k]
            accepted == c \in Range(ContactsIn(contactsAfterDefaultValidation, c.callsign))
        IN c.contactedCallsign \notin Submitters =>
             /\ accepted <=> rules.allowMissingParticipants
             /\ ~accepted => DetailOf(c).invalidValidationRule = "default"

-----------------------------------------------------------------------------
(* Scoring: contests that differ in their scoring chain *)

\* The most rules a scoring chain holds.
MaxRules == 2

\* The sequences of at most n different members of a set.
ChainsOf(pool, n) ==
  {c \in UNION {[1..k -> pool] : k \in 1..n} :
     \A i, j \in 1..Len(c) : i # j => c[i] # c[j]}

ScoringPool ==
  {Rule("default"), RuleP("minimumContacts", 2),
   RuleP("bonusStations", [x \in {"X"} |-> 5])}

ScoringRules ==
  {ContestRules(bl, TRUE, nc, <<>>, sc, <<Rule("default")>>, <<>>) :
     bl \in {{}, {"C"}}, nc \in {{}, {"A"}}, sc \in ChainsOf(ScoringPool, MaxRules)}

InitScoring == InitWith(PipelineSubmissions, ScoringRules)

SpecScoring == InitScoring /\ [][Next]_vars

\* The participants scoreContacts scores: the keys of the validated contacts
\* that are no placeholder.
Participants ==
  {validContacts[i].key : i \in {k \in 1..Len(validContacts) : ~validContacts[k].isNull}}

\* The score scoreContacts gave the k-th valid contact of p; a contact it left
\* out of its result counts nothing.
ScoreOfValid(p, k) ==
  IF k <= Len(ContactsIn(scoredContacts, p)) THEN ContactsIn(scoredContacts, p)[k].score
  ELSE 0

\* Whether the scoring-level minimumContacts rule leaves a participant unscored.
OwnGate(p) ==
  /\ HasRule(rules.scoring, "minimumContacts")
  /\ Len(scoringDetails[p].contacts) < ThresholdOf(rules.scoring)

\* Whether the contacted callsign of a contact appears in too few logs for the
\* scoring-level minimumContacts rule.
ContactGate(c) ==
  /\ HasRule(rules.scoring, "minimumContacts")
  /\ GetOr0(appearanceCounts, c.contactedCallsign) < ThresholdOf(rules.scoring)

\* C5 as stated: with a scoring-level minimumContacts rule of threshold N,
\* every valid contact whose contacted callsign appears in fewer than N logs
\* has score 0 and scoreRule 'minimumContacts'.
ContactGateZeroesEveryContact ==
  (Scored /\ HasRule(rules.scoring, "minimumContacts")) =>
    \A p \in Participants : \A k \in 1..Len(ContactsIn(validContacts, p)) :
      LET c == ContactsIn(validContacts, p)[k] IN
        ContactGate(c) =>
          /\ ScoreOfValid(p, k) = 0
          /\ DetailOf(c).scoreRule = "minimumContacts"
          /\ DetailOf(c).givenScore = 0

\* C5, amended: with a scoring-level minimumContacts rule of threshold N, every
\* valid contact of a participant with at least N scoring-detail entries whose
\* contacted callsign appears in fewer than N logs has score 0 and scoreRule
\* 'minimumContacts', whatever the other scoring rules would give it.
ContactGateZeroesContact ==
  (Scored /\ HasRule(rules.scoring, "minimumContacts")) =>
    \A p \in Participants : \A k \in 1..Len(ContactsIn(validContacts, p)) :
      LET c == ContactsIn(validContacts, p)[k] IN
        (ContactGate(c) /\ ~OwnGate(p)) =>
          /\ Len(ContactsIn(scoredContacts, p)) = Len(ContactsIn(validContacts, p))
          /\ ScoreOfValid(p, k) = 0
          /\ DetailOf(c).scoreRule = "minimumContacts"
          /\ DetailOf(c).givenScore = 0

\* With threshold 2 and the default rule in the chain, a participant with two
\* detail entries holds a valid contact with a callsign of one appearance:
\* minimumContacts scores it 0 where the default rule would give 1.
ContactGateZeroesContactWitness ==
  /\ Scored
  /\ HasRule(rules.scoring, "minimumContacts")
  /\ HasRule(rules.scoring, "default")
  /\ ThresholdOf(rules.scoring) = 2
  /\ \E p \in Participants :
       /\ ~OwnGate(p)
       /\ \E k \in 1..Len(ContactsIn(validContacts, p)) :
            /\ GetOr0(appearanceCounts,
                      ContactsIn(validContacts, p)[k].contactedCallsign) = 1
            /\ ScoreOfValid(p, k) = 0
            /\ DetailOf(ContactsIn(validContacts, p)[k]).scoreRule = "minimumContacts"

\* C6: with a scoring-level minimumContacts rule of threshold N, a participant
\* whose submitted log holds fewer than N contacts stays in results or
\* nonCompetingResults with score 0, and one whose log holds at least N has
\* every valid contact scored.
OwnGateCountsTheLog ==
  HasRule(rules.scoring, "minimumContacts") =>
    \A p \in Submitters :
      /\ (Done /\ p \in Participants /\ Len(LogOf(p)) < ThresholdOf(rules.scoring)) =>
           LET ranked == output.results \o output.nonCompetingResults IN
             p \in Ranked(ranked) /\ ScoreIn(ranked, p) = 0
      /\ (Scored /\ p \in Participants /\ Len(LogOf(p)) >= ThresholdOf(rules.scoring)) =>
           Len(ContactsIn(scoredContacts, p)) = Len(ContactsIn(validContacts, p))

\* What holds instead of C6: the count the rule compares is that of the
\* participant's scoring-detail entries, which leave out the contacts with
\* blacklisted callsigns.
OwnGateCountsTheDetails ==
  HasRule(rules.scoring, "minimumContacts") =>
    \A p \in Submitters :
      /\ (Done /\ p \in Participants /\ OwnGate(p)) =>
           LET ranked == output.results \o output.nonCompetingResults IN
             p \in Ranked(ranked) /\ ScoreIn(ranked, p) = 0
      /\ (Scored /\ p \in Participants /\ ~OwnGate(p)) =>
           Len(ContactsIn(scoredContacts, p)) = Len(ContactsIn(validContacts, p))

\* Whether a scoring rule gives a contact a score of its own.
RuleMatches(rule, c) ==
  CASE rule.name = "default" -> TRUE
    [] rule.name = "bonusStations" -> rule.hasParam /\ c.contactedCallsign \in DOMAIN rule.param
    [] rule.name = "timeRange" ->
         LET r == currentRangeOf(parseDateTime(c.date, c.time), timeRangesOf(rules))
         IN r # 0 /\ rule.hasParam /\ timeRangesOf(rules)[r].name \in DOMAIN rule.param
    [] OTHER -> FALSE

\* Whether the chain holds a bonusStations rule that gives the contacted
\* callsign 5 and that no later rule of the chain follows with a score.
BonusStationsLast(c) ==
  \E i \in 1..Len(rules.scoring) :
    /\ rules.scoring[i].name = "bonusStations"
    /\ RuleMatches(rules.scoring[i], c)
    /\ rules.scoring[i].param[c.contactedCallsign] = 5
    /\ \A j \in (i + 1)..Len(rules.scoring) : ~RuleMatches(rules.scoring[j], c)

-----------------------------------------------------------------------------
(* The default rule: two logs that hold each other's contacts *)

\* The most contacts the log of B holds when the logs are matched.
MaxCandidates == 2

\* The contact A logs with B.
MatchContactsOfA ==
  {Contact("B", "20250401", "120000", freq, "40m", "SSB", rst[1], rst[2], ex[1], ex[2]) :
     freq \in {"7.000", ""}, rst \in {<<"", "">>, <<"59", "57">>},
     ex \in {<<"", "">>, <<"1", "2">>}}

\* The contacts B may log with A: at A's time and frequency or two minutes or
\* two kHz off, in A's mode or another, with or without the reciprocal RST and
\* exchange.
MatchContactsOfB ==
  {Contact("A", "20250401", at[1], at[2], "40m", mode, rst[1], rst[2], ex[1], ex[2]) :
     at \in {<<"120000", "7.000">>, <<"120200", "7.000">>, <<"120000", "7.002">>},
     mode \in {"SSB", "CW"},
     rst \in {<<"", "">>, <<"57", "59">>},
     ex \in {<<"", "">>, <<"2", "1">>, <<"1", "2">>}}

MatchSubmissions ==
  {SubmissionsOf(<<<<x>>, ys, <<>>>>) :
     x \in MatchContactsOfA,
     ys \in UNION {[1..n -> MatchContactsOfB] : n \in 0..MaxCandidates}}

\* The tolerances of the default rule: not given, 1 and 0.
MatchRules ==
  {ContestRules({}, FALSE, {},
                <<RuleP("default", [maximumTimeDiff |-> t, maximumFrequencyDiff |-> t])>>,
                <<Rule("default")>>, <<Rule("default")>>, <<>>) :
     t \in {unset, 1, 0}}

InitMatch == InitWith(MatchSubmissions, MatchRules)

SpecMatch == InitMatch /\ [][Next]_vars

\* A tolerance as configured: 2 when the rule does not give it.
Configured(tolerance) == IF tolerance = unset THEN 2 ELSE tolerance

\* The kHz of a frequency text, NaN when it is none.
Khz(freq) == IF freq \in DOMAIN FreqTable THEN FreqTable[freq] ELSE NaN

\* Whether y, of the contacted party's log, answers x: it is with x's owner on
\* x's band and mode, within the tolerances of time and frequency, with RST
\* empty on x or reciprocal and exchanges all empty or reciprocal.
Answers(x, y) ==
  LET params == defaultParamsOf(rules)
      tx == parseDateTime(x.date, x.time)
      ty == parseDateTime(y.date, y.time)
  IN /\ y.contactedCallsign = x.callsign
     /\ y.band = x.band
     /\ y.mode = x.mode
     /\ ~isNaN(tx) /\ ~isNaN(ty)
     /\ Abs(tx - ty) <= Configured(params.maximumTimeDiff)
     /\ ~isNaN(Khz(x.freq)) /\ ~isNaN(Khz(y.freq))
     /\ Abs(Khz(x.freq) - Khz(y.freq)) <= Configured(params.maximumFrequencyDiff)
     /\ \/ x.exchanges.rstSent = "" /\ x.exchanges.rstRcvd = ""
        \/ /\ x.exchanges.rstSent = y.exchanges.rstRcvd
           /\ x.exchanges.rstRcvd = y.exchanges.rstSent
     /\ \/ /\ x.exchanges.stxString = "" /\ x.exchanges.srxString = ""
           /\ y.exchanges.stxString = "" /\ y.exchanges.srxString = ""
        \/ /\ x.exchanges.stxString = y.exchanges.srxString
           /\ x.exchanges.srxString = y.exchanges.stxString

\* Whether the default rule kept every contact that is answered and no other,
\* among the contacts with stations that submitted a log.
AnsweredOnesSurvive ==
  \A i \in 1..Len(initialValidContacts) : \A k \in 1..Len(initialValidContacts[i].val) :
    LET x == initialValidContacts[i].val[k] IN
      x.contactedCallsign \in Submitters =>
        (x \in Range(ContactsIn(contactsAfterDefaultValidation, x.callsign))
           <=> \E y \in Range(ContactsIn(initialValidContacts, x.contactedCallsign)) :
                 Answers(x, y))

\* C3: under the default rule a contact of A with B, which submitted a log,
\* survives exactly when B's log holds at least one contact with A on the same
\* band and mode, at most maximumTimeDiff minutes and maximumFrequencyDiff
\* away, with RST empty on A's side or reciprocal and exchanges all empty or
\* reciprocal.
DefaultKeepsAnswered ==
  (Validated /\ HasRule(rules.validation, "default")) => AnsweredOnesSurvive

\* What holds of C3: the same for every tolerance but 0, which the rule takes
\* as not given.
DefaultKeepsAnsweredUnlessZero ==
  (/\ Validated
   /\ HasRule(rules.validation, "default")
   /\ defaultParamsOf(rules).maximumTimeDiff # 0
   /\ defaultParamsOf(rules).maximumFrequencyDiff # 0) => AnsweredOnesSurvive

-----------------------------------------------------------------------------
(* uniqueContactsByTimeRange *)

\* Two named ranges: the first two minutes after noon and the three after.
UniqueRanges ==
  <<[name |-> "first", start |-> 720, end |-> 721],
    [name |-> "second", start |-> 722, end |-> 724]>>

UniqueContacts ==
  {Contact(c, "20250401", time, "7.000", "40m", "SSB", "", "", "", "") :
     c \in {"B", "C"}, time \in {"120000", "120100", "120200"}}

UniqueSubmissions ==
  {SubmissionsOf(logs) : logs \in LogTriples(UniqueContacts, MaxContacts)}

UniqueRules ==
  {ContestRules({}, am, {}, v, <<Rule("default")>>, <<Rule("default")>>, <<>>) :
     am \in BOOLEAN,
     v \in {<<RuleP("uniqueContactsByTimeRange", UniqueRanges)>>,
            <<Rule("default"), RuleP("uniqueContactsByTimeRange", UniqueRanges)>>}}

InitUnique == InitWith(UniqueSubmissions, UniqueRules)

SpecUnique == InitUnique /\ [][Next]_vars

\* The named range a contact falls in, 0 when in none.
RangeOf(c) == currentRangeOf(parseDateTime(c.date, c.time), timeRangesOf(rules))

\* Whether two contacts are with one callsign in one named range.
SameStationAndRange(c, d) ==
  /\ c.contactedCallsign = d.contactedCallsign
  /\ RangeOf(c) # 0
  /\ RangeOf(c) = RangeOf(d)

\* C9: with uniqueContactsByTimeRange configured no participant keeps two
\* contacts with one callsign in one named range, and of the contacts with one
\* callsign in one range the earliest of the log is the one kept.
UniquePerRangeKeepsEarliest ==
  (Validated /\ HasRule(rules.validation, "uniqueContactsByTimeRange")) =>
    \A i \in 1..Len(contactsAfterDefaultValidation) :
      LET before == contactsAfterDefaultValidation[i].val
          after == ContactsIn(contactsAfterUniqueValidation,
                              contactsAfterDefaultValidation[i].key)
      IN /\ \A k, l \in 1..Len(after) :
              k < l => ~SameStationAndRange(after[k], after[l])
         /\ \A k \in 1..Len(before) :
              (/\ RangeOf(before[k]) # 0
               /\ \A l \in 1..(k - 1) : ~SameStationAndRange(before[l], before[k]))
                => before[k] \in Range(after)

-----------------------------------------------------------------------------
(* Scoring details: what an entry without a scoring rule holds *)

\* The scoring-detail entries of every participant.
DetailEntries ==
  UNION {Range(scoringDetails[p].contacts) : p \in DOMAIN scoringDetails}

\* Whether an entry names no scoring rule: scoreRule is null or was never set.
NoScoreRule(d) == d.scoreRule \in {"null", "undefined"}

\* C11: in the scoring details scoreContest returns, every per-contact entry
\* that records no scoring rule has givenScore 0.
NoScoreRuleMeansZero ==
  Done => \A d \in DetailEntries : NoScoreRule(d) => d.givenScore = 0

\* An entry whose scoreRule was assigned null has givenScore 0: the
\* assignments of null come with the assignment of 0.
AssignedNullMeansZero ==
  Done => \A d \in DetailEntries : d.scoreRule = "null" => d.givenScore = 0

-----------------------------------------------------------------------------
(* applyTiebreakers on its own: any result list, any tiebreaker list *)

\* applyTiebreakers(results, scoredContacts, rules) called by itself.
ApplyTiebreakers ==
  /\ pc = "tiebreak"
  /\ output' = [output EXCEPT !.results = applyTiebreakers(results, scoredContacts, rules)]
  /\ pc' = "tiebroken"
  /\ UNCHANGED <<previous, submissions, rules, initialValidContacts, contactsAfterDefaultValidation,
                 contactsAfterUniqueValidation, validContacts, scoringDetails,
                 missingParticipants, blacklistedCallsignsFound, appearanceCounts,
                 blacklistedAppearanceCounts, scoredContacts, results>>

NextTiebreak == ApplyTiebreakers

\* The most participants a result list holds.
MaxTied == 3

TiedPool == {Alphabet[i] : i \in 1..MaxTied}

\* A scored contact of a participant at a time of day.
ScoredContact(callsign, call, time, index) ==
  [makeValidContact(callsign,
                    Contact(call, "20250401", time, "7.000", "40m", "SSB", "", "", "", ""),
                    "40m", index) EXCEPT !.score = 1]

\* What a participant may have worked: nothing, one station, one station twice
\* two minutes apart, two stations four minutes apart.
WorkedChoices(p) ==
  {<<>>,
   <<ScoredContact(p, "X", "120000", 1)>>,
   <<ScoredContact(p, "X", "120000", 1), ScoredContact(p, "X", "120200", 2)>>,
   <<ScoredContact(p, "X", "120000", 1), ScoredContact(p, "Y", "120400", 2)>>}

\* The result lists of different participants with any scores.  The rules look
\* at a participant's contacts, never at its callsign, so the participants come
\* in the order of their names and differ in what they worked.
ResultLists ==
  UNION {{[i \in 1..n |-> [callsign |-> Alphabet[i], score |-> scores[i]]] :
            scores \in [1..n -> {1, 2}]} : n \in 0..MaxTied}

TiebreakerChoices ==
  {<<>>, <<"default">>, <<"validStations">>, <<"minimumTime">>,
   <<"validStations", "minimumTime">>, <<"minimumTime", "validStations">>}

InitTiebreak ==
  /\ submissions = <<>>
  /\ rules \in {ContestRules({}, FALSE, {}, <<>>, <<>>, <<>>, t) : t \in TiebreakerChoices}
  /\ pc = "tiebreak"
  /\ initialValidContacts = <<>>
  /\ contactsAfterDefaultValidation = <<>>
  /\ contactsAfterUniqueValidation = <<>>
  /\ validContacts = <<>>
  /\ scoringDetails = EmptyMap
  /\ missingParticipants = <<>>
  /\ blacklistedCallsignsFound = {}
  /\ appearanceCounts = EmptyMap
  /\ blacklistedAppearanceCounts = EmptyMap
  /\ \E worked \in [TiedPool -> UNION {WorkedChoices(p) : p \in TiedPool}] :
       /\ \A p \in TiedPool : worked[p] \in WorkedChoices(p)
       /\ scoredContacts = [i \in 1..MaxTied |->
                              [key |-> Alphabet[i], val |-> worked[Alphabet[i]],
                               isNull |-> FALSE]]
  /\ results \in ResultLists
  /\ output = [results |-> <<>>, nonCompetingResults |-> <<>>,
               missingParticipants |-> <<>>, blacklistedCallsignsFound |-> <<>>]
  /\ previous = <<>>

SpecTiebreak == InitTiebreak /\ [][NextTiebreak]_vars

Tiebroken == pc = "tiebroken"

\* The place of a callsign in a list of results.
PlaceIn(list, p) == CHOOSE i \in 1..Len(list) : list[i].callsign = p

\* Whether a list holds the pairs of another, each as often.
IsPermutationOf(out, in) ==
  /\ Len(out) = Len(in)
  /\ \A x \in Range(in) \cup Range(out) :
       Cardinality({i \in 1..Len(out) : out[i] = x})
         = Cardinality({i \in 1..Len(in) : in[i] = x})

NonIncreasing(list) == \A i \in 1..(Len(list) - 1) : list[i].score >= list[i + 1].score

\* C13 as stated: for any result list and any tiebreaker list the output is a
\* permutation of the input with scores non-increasing from first to last.
TiebreakersAlwaysSortByScore ==
  Tiebroken => /\ IsPermutationOf(output.results, results)
               /\ NonIncreasing(output.results)

\* C13, amended: the output is a permutation of the input; its scores are
\* non-increasing when a tiebreaker is configured or the input's already were.
TiebreakersSortByScore ==
  Tiebroken => /\ IsPermutationOf(output.results, results)
               /\ (rules.tiebreaker # <<>> \/ NonIncreasing(results))
                    => NonIncreasing(output.results)

\* An input of three in no order of score, with a tiebreaker configured: the
\* output is another list.
TiebreakersSortByScoreWitness ==
  /\ Tiebroken
  /\ rules.tiebreaker # <<>>
  /\ Len(results) = 3
  /\ ~NonIncreasing(results)
  /\ output.results # results
  /\ NonIncreasing(output.results)

\* The participants of the result list.
Listed == Ranked(results)

\* The stations a participant worked, and the minutes from its first contact
\* to its last.
StationsWorked(p) ==
  Cardinality({c.contactedCallsign : c \in Range(ContactsIn(scoredContacts, p))})

ContactCount(p) == Len(ContactsIn(scoredContacts, p))

MinuteOf(c) == TimeTable[c.time] + MinutesPerDay * DateTable[c.date]

WorkedSpan(p) ==
  LET minutes == {MinuteOf(c) : c \in Range(ContactsIn(scoredContacts, p))}
  IN (CHOOSE m \in minutes : \A n \in minutes : n <= m)
       - (CHOOSE m \in minutes : \A n \in minutes : m <= n)

\* Whether a rule puts the first of two participants ahead of the second.
RulePrefers(rule, a, b) ==
  CASE rule = "validStations" -> StationsWorked(a) > StationsWorked(b)
    [] rule = "minimumTime" ->
         \/ ContactCount(a) >= 2 /\ ContactCount(b) <= 1
         \/ ContactCount(a) >= 2 /\ ContactCount(b) >= 2 /\ WorkedSpan(a) < WorkedSpan(b)
    [] OTHER -> FALSE

\* Whether a rule returns 0 for two participants.
RuleTies(rule, a, b) == ~RulePrefers(rule, a, b) /\ ~RulePrefers(rule, b, a)

\* Whether two participants have one score and every configured rule returns
\* 0 for them.
TiedThroughout(a, b) ==
  /\ ScoreIn(results, a) = ScoreIn(results, b)
  /\ \A i \in 1..Len(rules.tiebreaker) : RuleTies(rules.tiebreaker[i], a, b)

\* C14: two participants of equal score for which every configured rule
\* returns 0 come out in the order they went in, and with no tiebreaker
\* configured the output is the input.
TiebreakersAreStable ==
  Tiebroken =>
    /\ \A a, b \in Listed :
         (TiedThroughout(a, b) /\ PlaceIn(results, a) < PlaceIn(results, b))
           => PlaceIn(output.results, a) < PlaceIn(output.results, b)
    /\ rules.tiebreaker = <<>> => output.results = results

\* Three participants of one score, two of them tied throughout and the third
\* moved ahead of both by a rule.
TiebreakersAreStableWitness ==
  /\ Tiebroken
  /\ rules.tiebreaker # <<>>
  /\ \E a, b, c \in Listed :
       /\ TiedThroughout(a, b)
       /\ PlaceIn(results, a) < PlaceIn(results, b)
       /\ PlaceIn(results, b) < PlaceIn(results, c)
       /\ ScoreIn(results, c) = ScoreIn(results, a)
       /\ PlaceIn(output.results, c) < PlaceIn(output.results, a)
       /\ PlaceIn(output.results, a) < PlaceIn(output.results, b)

\* The first configured rule that returns nonzero for two participants; 0 when
\* none does.
FirstDeciding(a, b) ==
  LET deciding == {i \in 1..Len(rules.tiebreaker) : ~RuleTies(rules.tiebreaker[i], a, b)}
  IN IF deciding = {} THEN 0 ELSE CHOOSE i \in deciding : \A j \in deciding : i <= j

\* C15: of two participants of equal score, the one the first rule that
\* returns nonzero for them prefers comes out first, whatever the later rules
\* return (validStations prefers more stations worked, minimumTime the shorter
\* span, and two contacts or more over one or none).
FirstDecidingRuleOrders ==
  Tiebroken =>
    \A a, b \in Listed :
      (/\ ScoreIn(results, a) = ScoreIn(results, b)
       /\ FirstDeciding(a, b) # 0
       /\ RulePrefers(rules.tiebreaker[FirstDeciding(a, b)], a, b))
        => PlaceIn(output.results, a) < PlaceIn(output.results, b)

\* Two participants of one score that went in in the other order: the first
\* rule decides for the one and the second rule for the other.
FirstDecidingRuleOrdersWitness ==
  /\ Tiebroken
  /\ Len(rules.tiebreaker) = 2
  /\ \E a, b \in Listed :
       /\ ScoreIn(results, a) = ScoreIn(results, b)
       /\ RulePrefers(rules.tiebreaker[1], a, b)
       /\ RulePrefers(rules.tiebreaker[2], b, a)
       /\ PlaceIn(results, b) < PlaceIn(results, a)
       /\ PlaceIn(output.results, a) < PlaceIn(output.results, b)

-----------------------------------------------------------------------------
(* Bonus: contests that differ in their chain of bonus rules *)

BonusPool ==
  {Rule("default"), RuleP("default", 0), RuleP("default", 2), RuleP("default", 3)}

BonusRules ==
  {ContestRules({}, TRUE, nc, <<>>, <<Rule("default")>>, b, <<>>) :
     nc \in {{}, {"A"}}, b \in ChainsOf(BonusPool, MaxRules)}

InitBonus == InitWith(PipelineSubmissions, BonusRules)

SpecBonus == InitBonus /\ [][Next]_vars

Bonused == pc \in {"bonused", "done"}

\* The sum of the scores scoreContacts gave a participant's contacts.
BaseScore(p) ==
  SumSeq([k \in 1..Len(ContactsIn(scoredContacts, p)) |->
            ContactsIn(scoredContacts, p)[k].score])

\* C12: after applyBonusRules the givenBonus of every participant with scoring
\* details is its final score less its base score, whatever the chain of
\* bonus rules.
GivenBonusIsFinalLessBase ==
  Bonused =>
    \A p \in DOMAIN scoringDetails \cap Ranked(results) :
      scoringDetails[p].givenBonus = ScoreIn(results, p) - BaseScore(p)

\* With one bonus rule configured givenBonus is the final score less the base
\* score.
GivenBonusOfOneRule ==
  (Bonused /\ Len(rules.bonus) = 1) =>
    \A p \in DOMAIN scoringDetails \cap Ranked(results) :
      scoringDetails[p].givenBonus = ScoreIn(results, p) - BaseScore(p)

-----------------------------------------------------------------------------
(* The ranked lists *)

\* The participants scoreContacts returned a list of scored contacts for.
ScoredParticipants == MapKeys(scoredContacts)

\* How often a callsign is in a ranked list.
TimesIn(list, p) == Cardinality({i \in 1..Len(list) : list[i].callsign = p})

\* C16: results and nonCompetingResults share no callsign, every scored
\* participant is in exactly one of them, once, and it is in
\* nonCompetingResults exactly when the nonCompeting list names it.
RankedListsPartition ==
  Done =>
    /\ Ranked(output.results) \cap Ranked(output.nonCompetingResults) = {}
    /\ Ranked(output.results) \cup Ranked(output.nonCompetingResults) = ScoredParticipants
    /\ \A p \in ScoredParticipants :
         /\ TimesIn(output.results, p) + TimesIn(output.nonCompetingResults, p) = 1
         /\ p \in Ranked(output.nonCompetingResults) <=> p \in rules.nonCompeting

\* A contest with a non-competing participant that scored and a competing one.
RankedListsPartitionWitness ==
  /\ Done
  /\ \E p \in rules.nonCompeting :
       /\ p \in Ranked(output.nonCompetingResults)
       /\ ScoreIn(output.nonCompetingResults, p) > 0
  /\ Len(output.results) = 2

-----------------------------------------------------------------------------
(* Missing participants: contests whose non-competing list may name a station
   that sent no log *)

MissingRules ==
  {ContestRules(bl, am, nc, v \o mc, <<Rule("default")>>, <<Rule("default")>>, <<>>) :
     bl \in {{}, {"B"}}, am \in BOOLEAN, nc \in {{}, {"X"}},
     v \in ValidationChoices,
     mc \in MinimumContactsChoices \cup {<<RuleP("minimumContacts", 0)>>}}

InitMissing == InitWith(PipelineSubmissions, MissingRules)

SpecMissing == InitMissing /\ [][Next]_vars

\* The callsigns with a placeholder entry among the validated contacts.
Placeholders ==
  {validContacts[i].key : i \in {k \in 1..Len(validContacts) : validContacts[k].isNull}}

\* C17: a callsign that submitted no log is in neither results nor
\* nonCompetingResults, whether it has a placeholder entry or not and whether
\* nonCompeting names it or not.
MissingNeverRanked ==
  Done =>
    \A p \in Callsigns \ Submitters :
      p \notin Ranked(output.results) \cup Ranked(output.nonCompetingResults)

\* A station without a log that nonCompeting names and validation gave a
\* placeholder, in a contest that ranks the others.
MissingNeverRankedWitness ==
  /\ Done
  /\ \E p \in Placeholders : p \in rules.nonCompeting /\ p \notin Submitters
  /\ output.results # <<>>

-----------------------------------------------------------------------------
(* Placeholders *)

\* C18: with allowMissingParticipants false the validated contacts hold no
\* placeholder; with it true a callsign has one exactly when a
\* validation-level minimumContacts rule is configured, the callsign is a
\* tracked missing participant that submitted no log, and its appearance
\* count meets the threshold.
PlaceholdersOnlyWhenAllowed ==
  Validated =>
    /\ ~rules.allowMissingParticipants => Placeholders = {}
    /\ rules.allowMissingParticipants =>
         \A c \in Callsigns :
           c \in Placeholders <=>
             /\ HasRule(rules.validation, "minimumContacts")
             /\ c \in Range(missingParticipants)
             /\ c \notin Submitters
             /\ GetOr0(appearanceCounts, c) >= ThresholdOf(rules.validation)

\* A contest that does not allow missing participants, with a minimumContacts
\* rule and a tracked missing participant that meets its threshold.
PlaceholdersOnlyWhenAllowedWitness ==
  /\ Validated
  /\ ~rules.allowMissingParticipants
  /\ HasRule(rules.validation, "minimumContacts")
  /\ \E c \in Range(missingParticipants) :
       /\ c \notin Submitters
       /\ GetOr0(appearanceCounts, c) >= ThresholdOf(rules.validation)

-----------------------------------------------------------------------------
(* The missingParticipants output *)

\* The callsigns without a log that a contact surviving the passes before the
\* count is with.
SurvivingMissing ==
  {c.contactedCallsign : c \in Range(allContacts(contactsAfterUniqueValidation))}
    \ Submitters

\* C19: every callsign that submitted no log and is the contacted party of a
\* contact surviving the initial, default and per-range passes is in the
\* missingParticipants output, whatever allowMissingParticipants and the
\* validation rules are.
MissingAlwaysReported ==
  Done => SurvivingMissing \subseteq Ranked(output.missingParticipants)

\* With allowMissingParticipants true every such callsign is in the output.
MissingReportedWhenAllowed ==
  (Done /\ rules.allowMissingParticipants)
    => SurvivingMissing \subseteq Ranked(output.missingParticipants)

-----------------------------------------------------------------------------
(* scoreContest called again with the submissions and rules of the call before *)

\* The most calls of scoreContest on one submissions value.
MaxCalls == 2

\* The caller keeps the result and calls scoreContest again with the same
\* submissions array and the same rules.
ScoreContestAgain ==
  /\ pc = "done"
  /\ Len(previous) < MaxCalls - 1
  /\ previous' = Append(previous, [output |-> output, scoringDetails |-> scoringDetails])
  /\ pc' = "start"
  /\ initialValidContacts' = <<>>
  /\ contactsAfterDefaultValidation' = <<>>
  /\ contactsAfterUniqueValidation' = <<>>
  /\ validContacts' = <<>>
  /\ scoringDetails' = EmptyMap
  /\ missingParticipants' = <<>>
  /\ blacklistedCallsignsFound' = {}
  /\ appearanceCounts' = EmptyMap
  /\ blacklistedAppearanceCounts' = EmptyMap
  /\ scoredContacts' = <<>>
  /\ results' = <<>>
  /\ output' = [results |-> <<>>, nonCompetingResults |-> <<>>,
                missingParticipants |-> <<>>, blacklistedCallsignsFound |-> <<>>]
  /\ UNCHANGED <<submissions, rules>>

NextAgain ==
  ValidateContacts \/ ScoreContacts \/ ApplyBonusRules \/ AssembleResult \/ ScoreContestAgain

\* Logs on 7.000 MHz that name the band 40m or, wrongly, 20m.
AgainContacts ==
  {Contact(c, "20250401", "120000", "7.000", b, "SSB", "", "", "", "") :
     c \in {"A", "B", "X"}, b \in {"40m", "20m"}}

AgainSubmissions ==
  {SubmissionsOf(logs) : logs \in LogTriples(AgainContacts, MaxContacts)}

\* ['bands', {'40m': ['7.000', '7.003']}]
BandsRule == RuleP("bands", <<[name |-> "40m", start |-> 7000, end |-> 7003]>>)

AgainRules ==
  {ContestRules({}, am, {}, v, <<Rule("default")>>, <<Rule("default")>>, <<>>) :
     am \in BOOLEAN, v \in {<<>>, <<BandsRule>>, <<Rule("default")>>}}

InitAgain == InitWith(AgainSubmissions, AgainRules)

SpecAgain == InitAgain /\ [][NextAgain]_vars

\* The ContestResult of the call in hand.
Returned == [output |-> output, scoringDetails |-> scoringDetails]

\* C20: a second call of scoreContest with the same submissions value and the
\* same rules returns what the first call returned: the ranked lists, the
\* scoring details and the two formatted lists.
SecondCallReturnsTheSame ==
  (Done /\ previous # <<>>) => Returned = previous[Len(previous)]

\* The second call returns the ranked and formatted lists of the first.
SecondCallRanksTheSame ==
  (Done /\ previous # <<>>) => output = previous[Len(previous)].output

-----------------------------------------------------------------------------
(* Scoring details against the submitted log *)

\* Whether a scoring-detail entry is the one made of a raw contact: it copies
\* the contact's fields (the band as it was before the pass resolved it).
Describes(d, contact) == d.raw = [contact EXCEPT !.band = d.raw.band]

\* The raw contacts of a log that are with no blacklisted callsign, in order.
NotWithBlacklisted(log) ==
  SelectSeq(log, LAMBDA contact : Field(contact, "call") \notin rules.blacklist)

\* C21: the scoring details of every submitter that is not blacklisted hold
\* one entry per raw contact of its log, in the order of the log: entry i
\* describes raw contact i.
DetailsMirrorTheLog ==
  Validated =>
    \A p \in Submitters \ rules.blacklist :
      /\ p \in DOMAIN scoringDetails
      /\ Len(scoringDetails[p].contacts) = Len(LogOf(p))
      /\ \A i \in 1..Len(LogOf(p)) :
           i <= Len(scoringDetails[p].contacts)
             => Describes(scoringDetails[p].contacts[i], LogOf(p)[i])

\* What holds instead: the entries are those of the raw contacts that are with
\* no blacklisted callsign, in the order of the log.
DetailsMirrorTheLogLessBlacklisted ==
  Validated =>
    \A p \in Submitters \ rules.blacklist :
      /\ p \in DOMAIN scoringDetails
      /\ Len(scoringDetails[p].contacts) = Len(NotWithBlacklisted(LogOf(p)))
      /\ \A i \in 1..Len(scoringDetails[p].contacts) :
           Describes(scoringDetails[p].contacts[i], NotWithBlacklisted(LogOf(p))[i])

-----------------------------------------------------------------------------
(* Malformed fields: logs with a date that is no date or a frequency that is
   no number *)

\* A date of month 13 and a frequency that is no numeral.
BadDate == "20251301"
BadFreq == "abc"

\* Contacts of A and B with each other or with X, well formed or with one
\* malformed field.
MalformedContacts ==
  {Contact(c, f[1], "120000", f[2], "40m", "SSB", "", "", "", "") :
     c \in {"A", "B", "X"},
     f \in {<<"20250401", "7.000">>, <<BadDate, "7.000">>, <<"20250401", BadFreq>>}}

MalformedSubmissions ==
  {SubmissionsOf(<<logs[1], logs[2], <<>>>>) :
     logs \in {l \in LogTriples(MalformedContacts, MaxContacts) : l[3] = <<>>}}

MalformedRules ==
  {ContestRules({}, am, {}, v, <<Rule("default")>>, <<Rule("default")>>, <<>>) :
     am \in BOOLEAN,
     v \in {<<>>, <<Rule("timeRange")>>, <<BandsRule>>, <<Rule("default")>>,
            <<Rule("timeRange"), BandsRule>>}}

InitMalformed == InitWith(MalformedSubmissions, MalformedRules)

SpecMalformed == InitMalformed /\ [][Next]_vars

\* Whether the date and time of a valid contact are an instant, and its
\* frequency a number.
DateParses(c) == ~isNaN(parseDateTime(c.date, c.time))
FreqParses(c) == ~isNaN(Number(c.freq))

\* The valid contacts: those validateContacts returns and those scoreContacts
\* scored.
ValidOnes ==
  Range(allContacts(scoredEntries(validContacts))) \cup Range(allContacts(scoredContacts))

\* C22 as stated: whatever the validation rules, no contact with an
\* unparseable date or time or a non-numeric frequency is among the valid
\* (scored) contacts.
MalformedNeverValid ==
  Validated => \A c \in ValidOnes : DateParses(c) /\ FreqParses(c)

\* C22, amended: a contact with an unparseable date or time is not valid when
\* timeRange is configured, one with a non-numeric frequency is not valid when
\* bands is configured, and neither is valid under default when its contacted
\* callsign submitted a log.
MalformedExcludedByItsRule ==
  Validated =>
    \A c \in ValidOnes :
      /\ HasRule(rules.validation, "timeRange") => DateParses(c)
      /\ HasRule(rules.validation, "bands") => FreqParses(c)
      /\ (HasRule(rules.validation, "default") /\ c.contactedCallsign \in Submitters)
           => DateParses(c) /\ FreqParses(c)

\* With timeRange configured a log holds a contact with an unparseable date,
\* which the rule rejected, and a well-formed one, which is valid.
MalformedExcludedByItsRuleWitness ==
  /\ Validated
  /\ HasRule(rules.validation, "timeRange")
  /\ \E p \in Submitters :
       /\ \E d \in Range(scoringDetails[p].contacts) :
            /\ d.raw.qso_date = BadDate
            /\ d.invalidValidationRule = "timeRange"
       /\ Len(ContactsIn(validContacts, p)) = 1

-----------------------------------------------------------------------------
(* hasMinimumAppearances *)

\* C23: when scoreContest is over, hasMinimumAppearances of every submitter
\* that is not blacklisted is true exactly when its appearance count is at
\* least the threshold of the validation-level minimumContacts rule, which is
\* 0 when the rule is not configured.
HasMinimumAppearancesIsTheTest ==
  Done =>
    \A p \in Submitters \ rules.blacklist :
      scoringDetails[p].hasMinimumAppearances = "true"
        <=> GetOr0(appearanceCounts, p) >= minimumAppearancesOf(rules)

\* What holds instead: the flag is the outcome of the test for a submitter
\* that at least one log contacts, and is left unset for the others.
HasMinimumAppearancesOfTheContacted ==
  Done =>
    \A p \in Submitters \ rules.blacklist :
      scoringDetails[p].hasMinimumAppearances =
        IF GetOr0(appearanceCounts, p) > 0
        THEN BoolText(GetOr0(appearanceCounts, p) >= minimumAppearancesOf(rules))
        ELSE "undefined"

-----------------------------------------------------------------------------
(* blacklistedCallsignsFound *)

\* The count a formatted list pairs with a callsign.
CountIn(list, p) == list[CHOOSE i \in 1..Len(list) : list[i].callsign = p].count

\* The submissions made under a callsign, and the logs of submitters that are
\* not blacklisted that hold at least one raw contact with it.
SubmissionsUnder(b) == {i \in 1..Len(submissions) : submissions[i].callsign = b}

LogsNaming(b) ==
  {i \in 1..Len(submissions) :
     /\ submissions[i].callsign \notin rules.blacklist
     /\ \E k \in 1..Len(submissions[i].contacts) :
          Field(submissions[i].contacts[k], "call") = b}

\* C24: blacklistedCallsignsFound lists a blacklisted callsign exactly when it
\* submitted or a log of a submitter that is not blacklisted names it, and
\* pairs it with the number of its submissions plus the number of such logs,
\* a log that names it several times counting once.
BlacklistedCountIsPerLog ==
  Done =>
    \A b \in rules.blacklist :
      LET n == Cardinality(SubmissionsUnder(b)) + Cardinality(LogsNaming(b)) IN
        /\ b \in Ranked(output.blacklistedCallsignsFound) <=> n > 0
        /\ n > 0 => CountIn(output.blacklistedCallsignsFound, b) = n

\* A blacklisted callsign that submitted and that one log names twice: the
\* list pairs it with 2.
BlacklistedCountIsPerLogWitness ==
  /\ Done
  /\ \E b \in rules.blacklist :
       /\ SubmissionsUnder(b) # {}
       /\ \E i \in LogsNaming(b) :
            Len(SelectSeq(submissions[i].contacts,
                          LAMBDA contact : Field(contact, "call") = b)) = 2
       /\ CountIn(output.blacklistedCallsignsFound, b) = 2

-----------------------------------------------------------------------------
(* The order of the validation stages: contests that list timeRange, default
   and uniqueContactsByTimeRange in every order *)

\* Contacts with B, which submits, and with X, which does not, dated well or
\* not at all.
OrderContacts ==
  {Contact(c, date, "120000", "7.000", "40m", "SSB", "", "", "", "") :
     c \in {"B", "X"}, date \in {"20250401", BadDate}}

OrderSubmissions ==
  {SubmissionsOf(<<logs[1], logs[2], <<>>>>) :
     logs \in {l \in LogTriples(OrderContacts, MaxContacts) : l[3] = <<>>}}

\* A sequence in every order of its members.
OrdersOf(s) == {[i \in 1..Len(s) |-> s[f[i]]] : f \in Permutations(1..Len(s))}

OrderRules ==
  {ContestRules({}, TRUE, {}, v, <<Rule("default")>>, <<Rule("default")>>, <<>>) :
     v \in OrdersOf(<<Rule("timeRange"), Rule("default")>>)
             \cup OrdersOf(<<Rule("timeRange"), Rule("default"),
                             RuleP("uniqueContactsByTimeRange", UniqueRanges)>>)}

InitOrder == InitWith(OrderSubmissions, OrderRules)

SpecOrder == InitOrder /\ [][Next]_vars

JustValidated == pc = "validated"

\* The rules with the validation list in another order.
Relisted(v) == [rules EXCEPT !.validation = v]

\* The submissions with raw contact k taken out of log i.
WithoutContact(i, k) ==
  [submissions EXCEPT ![i].contacts =
     SubSeq(@, 1, k - 1) \o SubSeq(@, k + 1, Len(@))]

\* The places in its log of the raw contacts of a participant that a Map holds.
PlacesIn(m, p) == {c.scoringDetailsIndex : c \in Range(ContactsIn(m, p))}

\* Whether raw contact k of log i was rejected by an initial rule or by default.
RejectedBeforeUnique(i, k) ==
  k \notin PlacesIn(contactsAfterDefaultValidation, submissions[i].callsign)

\* The logs that hold a contact with c that the initial rules and default kept.
LogsKeeping(c) ==
  {i \in 1..Len(contactsAfterDefaultValidation) :
     \E k \in 1..Len(contactsAfterDefaultValidation[i].val) :
       contactsAfterDefaultValidation[i].val[k].contactedCallsign = c}

-----------------------------------------------------------------------------
(* Validation-level minimumContacts as a filter of keys: contests of three
   short logs *)

\* The most contacts one log holds in these contests.
MaxPerLog == 1

\* The logs of a participant: contacts with the others and with X.
ShortLogs(p) ==
  UNION {[1..n -> {PlainContact(c) : c \in {"A", "B", "C", "X"} \ {p}}] : n \in 0..MaxPerLog}

KeysSubmissions ==
  {SubmissionsOf(<<a, b, c>>) : a \in ShortLogs("A"), b \in ShortLogs("B"), c \in ShortLogs("C")}

KeysRules ==
  {ContestRules({}, am, {}, <<RuleP("minimumContacts", n)>>, <<Rule("default")>>,
                <<Rule("default")>>, <<>>) :
     am \in BOOLEAN, n \in {1, 2}}

InitKeys == InitWith(KeysSubmissions, KeysRules)

SpecKeys == InitKeys /\ [][Next]_vars

\* The logs the step left in the validated contacts.
LogsLeftWith(c) ==
  {i \in 1..Len(validContacts) :
     \E k \in 1..Len(validContacts[i].val) : validContacts[i].val[k].contactedCallsign = c}

\* C26: validation-level minimumContacts changes only the keys of the
\* validated contacts.  The entries that are no placeholder are entries of
\* the Map before the step, in its order, each with the contact list it had;
\* a placeholder has a key the Map did not have; and the appearance counts are
\* those counted before the step.
MinimumContactsOnlyDropsKeys ==
  (Validated /\ HasRule(rules.validation, "minimumContacts")) =>
    /\ scoredEntries(validContacts)
         = SelectSeq(contactsAfterUniqueValidation,
                     LAMBDA e : e.key \in MapKeys(scoredEntries(validContacts)))
    /\ \A p \in Placeholders : ~MapHas(contactsAfterUniqueValidation, p)
    /\ \A c \in Callsigns : GetOr0(appearanceCounts, c) = Cardinality(LogsWith(c))

\* With threshold 2, a participant that two logs contact stays and keeps its
\* contact with a participant that was removed; both logs that count for it
\* were removed, and its count is still 2.
MinimumContactsOnlyDropsKeysWitness ==
  /\ Validated
  /\ HasRule(rules.validation, "minimumContacts")
  /\ ThresholdOf(rules.validation) = 2
  /\ \E p \in MapKeys(validContacts) : \E q \in Submitters :
       /\ q \notin MapKeys(validContacts)
       /\ \E c \in Range(MapGet(validContacts, p)) : c.contactedCallsign = q
       /\ GetOr0(appearanceCounts, p) = 2
       /\ LogsLeftWith(p) = {}

-----------------------------------------------------------------------------
(* Whether the default rule's match goes both ways *)

\* Whether the rule's predicate accepts x with y, of the contacted party's
\* log, as its candidate: y is found under x's band and mode and matches.
Accepts(x, y) ==
  /\ y \in indexGet(createContactIndex(initialValidContacts), x.contactedCallsign,
                    x.callsign, bandModeKey(x.band, x.mode))
  /\ candidateMatches(x, y, OrDefault(defaultParamsOf(rules).maximumTimeDiff, 2),
                      OrDefault(defaultParamsOf(rules).maximumFrequencyDiff, 2))

\* The pairs of contacts that survive the initial pass, one of each of two
\* logs and each with the owner of the other.
Counterparts ==
  {p \in Range(allContacts(initialValidContacts)) \X Range(allContacts(initialValidContacts)) :
     /\ p[1].contactedCallsign = p[2].callsign
     /\ p[2].contactedCallsign = p[1].callsign
     /\ p[1].callsign # p[2].callsign}

\* Whether a contact gives no RST.
NoRst(c) == c.exchanges.rstSent = "" /\ c.exchanges.rstRcvd = ""

\* C27: of two contacts that survive the initial pass, one of A's log with B
\* and one of B's log with A, if the default rule's predicate accepts the
\* first with the second as its candidate it accepts the second with the
\* first as its candidate.
DefaultMatchIsSymmetric ==
  (Validated /\ HasRule(rules.validation, "default")) =>
    \A p \in Counterparts : Accepts(p[1], p[2]) => Accepts(p[2], p[1])

\* What holds instead: the same for two contacts that both give an RST or
\* both give none, and both give a frequency.
DefaultMatchIsSymmetricOnLikeRst ==
  (Validated /\ HasRule(rules.validation, "default")) =>
    \A p \in Counterparts :
      (/\ NoRst(p[1]) <=> NoRst(p[2])
       /\ p[1].freq # "" /\ p[2].freq # "")
        => (Accepts(p[1], p[2]) => Accepts(p[2], p[1]))

-----------------------------------------------------------------------------
(* givenScore against the base score *)

\* givenScore of a scoring-detail entry, an unset one counting 0.
GivenScoreOr0(d) == IF d.givenScore = unset THEN 0 ELSE d.givenScore

\* The sum of givenScore over the scoring-detail entries of a participant.
GivenScoreSum(p) ==
  SumSeq([j \in 1..Len(scoringDetails[p].contacts) |->
            GivenScoreOr0(scoringDetails[p].contacts[j])])

\* C28: for every participant of results or nonCompetingResults the sum of
\* givenScore over its scoring-detail entries, an unset one counting 0, is its
\* base score: the sum of score over its scored contacts.
GivenScoresSumToBase ==
  Done =>
    \A p \in Ranked(output.results) \cup Ranked(output.nonCompetingResults) :
      GivenScoreSum(p) = BaseScore(p)

\* A ranked participant with two scored contacts, one given 5 by bonusStations
\* and one given 1 by default: its base score is 6.
GivenScoresSumToBaseWitness ==
  /\ Done
  /\ \E p \in Ranked(output.results) :
       /\ BaseScore(p) = 6
       /\ \E d, e \in Range(scoringDetails[p].contacts) :
            /\ d.scoreRule = "bonusStations" /\ d.givenScore = 5
            /\ e.scoreRule = "default" /\ e.givenScore = 1

-----------------------------------------------------------------------------
(* The non-competing list: contests that differ in it alone *)

NonCompetingLists == {{}, {"A"}, {"A", "B"}, {"C", "X"}}

NonCompetingRules ==
  {ContestRules({}, TRUE, nc, v, <<Rule("default")>>, <<RuleP("default", 2)>>,
                <<"validStations">>) :
     nc \in {{}, {"A"}, {"A", "B"}}, v \in {<<>>, <<Rule("default")>>}}

InitNonCompeting == InitWith(KeysSubmissions, NonCompetingRules)

SpecNonCompeting == InitNonCompeting /\ [][Next]_vars

\* The (callsign, score) pairs of the two ranked lists of a result.
ScoresOf(o) == Range(o.results \o o.nonCompetingResults)

\* C29: with the submissions and the other rules as they are, under any other
\* non-competing list scoreContest returns the same scoring details, missing
\* participants and blacklisted callsigns found and gives every callsign the
\* same final score; the callsigns the list names are those of
\* nonCompetingResults and the others those of results.
NonCompetingOnlyMoves ==
  Done =>
    \A nc \in NonCompetingLists :
      \E other \in {scoreContest(submissions, [rules EXCEPT !.nonCompeting = nc])} :
        /\ other.scoringDetails = scoringDetails
        /\ other.output.missingParticipants = output.missingParticipants
        /\ other.output.blacklistedCallsignsFound = output.blacklistedCallsignsFound
        /\ ScoresOf(other.output) = ScoresOf(output)
        /\ Len(other.output.results) + Len(other.output.nonCompetingResults)
             = Len(output.results) + Len(output.nonCompetingResults)
        /\ Ranked(other.output.nonCompetingResults)
             = Ranked(output.results \o output.nonCompetingResults) \cap nc
        /\ nc = rules.nonCompeting => other.output = output

\* A is non-competing and scored; B competes and scored a contact with A that
\* A's log confirmed under the default rule.
NonCompetingOnlyMovesWitness ==
  /\ Done
  /\ HasRule(rules.validation, "default")
  /\ rules.nonCompeting = {"A"}
  /\ "A" \in Ranked(output.nonCompetingResults)
  /\ ScoreIn(output.nonCompetingResults, "A") > 0
  /\ "B" \in Ranked(output.results)
  /\ ScoreIn(output.results, "B") > 0
  /\ \E c \in Range(ContactsIn(scoredContacts, "B")) : c.contactedCallsign = "A"

-----------------------------------------------------------------------------
(* blacklistedCallsignsFound against the configured blacklist *)

\* C30: every callsign of blacklistedCallsignsFound, in validateContacts'
\* result and in the ContestResult, is on the configured blacklist; and no
\* entry of the Map applyDefaultValidation is given belongs to a blacklisted
\* callsign or holds a contact with one, so that neither of its branches that
\* add to the set is taken.
BlacklistedFoundAreBlacklisted ==
  /\ pc # "start" =>
       /\ blacklistedCallsignsFound \subseteq rules.blacklist
       /\ \A i \in 1..Len(initialValidContacts) :
            /\ initialValidContacts[i].key \notin rules.blacklist
            /\ \A c \in Range(initialValidContacts[i].val) :
                 c.contactedCallsign \notin rules.blacklist
  /\ Done => Ranked(output.blacklistedCallsignsFound) \subseteq rules.blacklist

\* The default rule is configured and a log whose owner is not blacklisted
\* holds a contact with a blacklisted callsign, which was found.
BlacklistedFoundAreBlacklistedWitness ==
  /\ Done
  /\ HasRule(rules.validation, "default")
  /\ \E i \in 1..Len(submissions) :
       /\ submissions[i].callsign \notin rules.blacklist
       /\ \E c \in Range(submissions[i].contacts) :
            /\ Field(c, "call") \in rules.blacklist
            /\ Field(c, "call") \in Ranked(output.blacklistedCallsignsFound)
       /\ \E e \in Range(initialValidContacts) :
            e.key = submissions[i].callsign /\ Len(e.val) > 0

====
